---- MODULE Spec2Model ----
(***************************************************************************)
(* TunnelMesh coordination core.                                           *)
(*                                                                         *)
(*  - Directory: the coordinator's in-memory peer registry and mesh-IP     *)
(*    allocator (internal/coord server; its source file is not part of     *)
(*    the tree, so it is modelled from the design document, sections 3,    *)
(*    4.D and 6).                                                          *)
(*  - Relay hub: the persistent websocket relay endpoint, as implemented   *)
(*    by mockRelayServer.handlePersistentRelay.                            *)
(*  - Token authority: Server.GenerateToken / Server.ValidateToken over    *)
(*    golang-jwt/jwt v5.                                                   *)
(***************************************************************************)
EXTENDS Integers, Sequences, FiniteSets, TLC

(***************************************************************************)
(* Bounds of the model.                                                    *)
(***************************************************************************)
\* usable host addresses of mesh_cidr (the CIDR without network and broadcast)
UsableHosts == 2
\* the 64-bit name hash takes values in 0 .. HashSpace-1
HashSpace == 2
\* the wall clock runs over 0 .. MaxTime
MaxTime == 1
\* what the relay peers do, in all: requests made, frames written and
\* connections closed
MaxEvents == 5
\* clock ticks per second: NumericDate keeps whole seconds only
TicksPerSecond == 2
\* TokenExpiry in seconds; the 24 hours of the code scaled down
TokenExpirySeconds == 2
\* largest cfg.Size of a benchmark run, in bytes
MaxSize == 3
\* ChunkSize in bytes; the 64 KiB of the code scaled down
ChunkSize == 2
\* a latency probe follows every PingEvery-th chunk of an upload; the 10 of
\* the code scaled down
PingEvery == 2
\* chaos writer: goroutines that call Write, and Write calls in all
NumWriters == 2
MaxWrites == 3
\* token bucket: largest rate in bytes per second, largest request in bytes,
\* and the time until which the bucket is watched, in ticks
MaxRate == 2
MaxTake == 3
MaxNow == 6
\* Write calls of the one caller of a chaos writer
MaxPacedWrites == 2
\* largest max_retries of a retry configuration
LargestMaxRetries == 3
\* session-invalid signals per peer and session
MaxSignals == 2
\* ticks of the heartbeat ticker
MaxBeats == 4
\* restarts of the coordinator
MaxRestarts == 1
MaxGrants == 3

VARIABLES
    \* ---- directory (coord.Server) ----
    peers,        \* name -> peer record, the registry keyed by name
    hashOf,       \* name -> stable hash of the name
    now,          \* wall clock
    resp,         \* the response of the last directory request
    firstIP,      \* history: name -> mesh_ip of its first registration ever
    stableIP,     \* history: name -> mesh_ip of its first registration since
                  \*          the last register of any other name
    \* ---- relay hub (mockRelayServer) ----
    connections,  \* m.connections: peer name -> websocket connection
    received,     \* m.received: the channel of accepted relayMessages
    peerName,     \* per connection: the name taken from the bearer token
    pc,           \* per connection: where its handler stands
    wire,         \* per connection: messages the hub wrote to it
    cur,          \* per connection: the handler's pending WriteMessage
    events,       \* requests, frames and closes of the peers so far
    \* ---- token authority (coord.Server, auth.go) ----
    clock,        \* time.Now(), in ticks
    issued,       \* the token GenerateToken returned last
    validation,   \* the last ValidateToken call: token, time, outcome
    \* ---- benchmark run (benchmark.Client, and the server it talks to) ----
    bpc,          \* where Client.Run stands
    bcfg,         \* cfg after WithDefaults
    bresult,      \* the Result Run returns (present = FALSE: nil)
    berr,         \* the error Run returns ("": nil)
    sent,         \* runUpload: sent
    seqNum,       \* runUpload: seqNum
    bytesReceived, \* runDownload: received
    after,        \* where the measureLatency call in progress returns to
    c2s,          \* the connection, client to server: messages in flight
    s2c,          \* the connection, server to client: messages in flight
    clog,         \* history: every message the client wrote
    emitted,      \* history: every message the client handed to its writer
    firstReply,   \* history: the message the client read after Start
    probes,       \* history: per latency probe, its seq and what it read
    spc,          \* server: where the connection handler stands
    sstart,       \* server: the Start message it accepted
    srule,        \* server: when its upload loop ends
    sbytes,       \* server: bytes_transferred
    sread,        \* history: every message the server read
    slog,         \* history: every message the server wrote
    connBroken,   \* the connection is lost
    cancelled,    \* ctx is done
    cstage,       \* codec: what has been done with the message or frame
    cmsg,         \* codec: the message of the caller
    cbytes,       \* codec: the bytes written
    cdecoded,     \* codec: what Decode returned
    cread,        \* codec: what ReadMessage returned
    built,        \* chaos writer: NewChaosWriter has run
    lossy,        \* chaos writer: cfg.PacketLossPercent > 0
    stats,        \* chaos writer: c.stats
    wpc,          \* chaos writer: where each Write call stands
    wlen,         \* chaos writer: len(p) of each Write call
    calls,        \* chaos writer: Write calls made
    seen,         \* chaos writer: what Stats() returned last
    cwcfg,        \* paced writer: cfg
    tb,           \* paced writer: the token bucket
    tnow,         \* paced writer: time.Now()
    prevTake,     \* history: the Take call before the last
    lastTake,     \* history: the last Take call
    cwstats,      \* paced writer: c.stats
    under,        \* history: calls of the underlying writer
    wlast,        \* history: the last Write call
    rpc,          \* retry: where RegisterWithRetry stands
    rcfg,         \* retry: retryCfg
    routcomes,    \* history: the outcome of every register attempt
    rbackoff,     \* retry: the next backoff
    rwaits,       \* history: the backoffs waited
    rctx,         \* retry: ctx is cancelled
    rcancelAt,    \* history: attempts made when ctx was cancelled
    rret,         \* retry: what RegisterWithRetry returned
    epc,          \* route lookup: where ensurePeerRoute stands
    ename,        \* route lookup: peerName
    attempt,      \* route lookup: attempt
    backoff,      \* route lookup: backoff, in milliseconds
    lastErr,      \* route lookup: lastErr != nil
    listings,     \* history: what every ListPeers of the call returned
    waits,        \* history: the sleeps of the call
    cache,        \* the cached mesh IP per peer
    routes,       \* the router's routes: mesh IP and peer name
    authorized,   \* the authorized keys of the SSH transport
    eret,         \* route lookup: the mesh IP returned
    lstate,       \* lifecycle: the connection state per peer
    lconns,       \* lifecycle: m.Connections, the peers with a connection
    tunnels,      \* lifecycle: the router's tunnels, by peer name
    lreason,      \* lifecycle: the reason of the last disconnect per peer
    pending,      \* lifecycle: a discovery trigger waits for the loop
    askedBy,      \* history: the peers whose signals set the trigger
    signals,      \* history: session-invalid signals per peer and session
    reconnects,   \* history: discoveries after signals, per peer and session
    cutTunnel,    \* history: the peers whose last signal found a tunnel routed
    hpc,          \* heartbeat loop: in its select, or returned
    hctx,         \* heartbeat loop: ctx is cancelled
    tick,         \* heartbeat loop: a tick waits in ticker.C
    beats,        \* history: heartbeats attempted
    hfails,       \* history: heartbeats failed
    hsyncs,       \* history: DNS syncs attempted
    req,          \* history: the last request to the directory
    sessions,     \* the relay sessions of the coordinator, by peer name
    jpc,          \* joining peer: where runJoin stands, per peer
    jlast,        \* history: the outcome of the last heartbeat, per peer
    restarts,     \* history: restarts of the coordinator
    granted       \* bucket: the grants to the caller that sleeps every wait

dirVars == <<peers, hashOf, now, resp>>
histVars == <<firstIP, stableIP>>

relayVars == <<connections, received, peerName, pc, wire, cur, events>>

tokenVars == <<clock, issued, validation>>

\* the state of the components that the directory and the relay hub do not touch
benchVars == <<bpc, bcfg, bresult, berr, sent, seqNum, bytesReceived, after,
               c2s, s2c, clog, emitted, firstReply, probes, spc, sstart,
               srule, sbytes, sread, slog, connBroken, cancelled>>

codecVars == <<cstage, cmsg, cbytes, cdecoded, cread>>

chaosVars == <<built, lossy, stats, wpc, wlen, calls, seen>>

paceVars == <<cwcfg, tb, tnow, prevTake, lastTake, cwstats, under, wlast>>

retryVars == <<rpc, rcfg, routcomes, rbackoff, rwaits, rctx, rcancelAt, rret>>

routeVars == <<epc, ename, attempt, backoff, lastErr, listings, waits, cache, routes, authorized, eret>>

lifeVars == <<lstate, lconns, tunnels, lreason, pending, askedBy, signals,
              reconnects, cutTunnel>>

heartbeatVars == <<hpc, hctx, tick, beats, hfails, hsyncs>>

sessionsVars == <<req, sessions>>

rejoinVars == <<jpc, jlast, restarts>>

grantVars == <<granted>>

extVars ==
    <<tokenVars, benchVars, codecVars, chaosVars, paceVars, retryVars, routeVars, lifeVars, heartbeatVars, sessionsVars, rejoinVars, grantVars>>

vars == <<peers, hashOf, now, resp, firstIP, stableIP,
          connections, received, peerName, pc, wire, cur, events,
          clock, issued, validation,
          bpc, bcfg, bresult, berr, sent, seqNum, bytesReceived, after,
          c2s, s2c, clog, emitted, firstReply, probes, spc, sstart, srule,
          sbytes, sread, slog, connBroken, cancelled,
          cstage, cmsg, cbytes, cdecoded, cread,
          built, lossy, stats, wpc, wlen, calls, seen,
          cwcfg, tb, tnow, prevTake, lastTake, cwstats, under, wlast,
          rpc, rcfg, routcomes, rbackoff, rwaits, rctx, rcancelAt, rret,
          epc, ename, attempt, backoff, lastErr, listings, waits, cache, routes, authorized, eret,
          lstate, lconns, tunnels, lreason, pending, askedBy, signals, reconnects,
          cutTunnel,
          hpc, hctx, tick, beats, hfails, hsyncs,
          req, sessions,
          jpc, jlast, restarts,
          granted>>

(***************************************************************************)
(* Directory                                                               *)
(***************************************************************************)
Names == {"alice", "bob", "carol"}
Keys == {"SHA256:abc123", "SHA256:key"}
AuthToken == "test-token"
Bearers == {"test-token", "wrong-token"}

NoIP == 0 - 1
NoResp == [status |-> "none", mesh_ip |-> NoIP]

\* mesh_cidr as the interval [NetworkAddr, BroadcastAddr] of addresses
CidrSize == UsableHosts + 2
NetworkAddr == 0
BroadcastAddr == NetworkAddr + CidrSize - 1
InCidr(ip) == NetworkAddr <= ip /\ ip <= BroadcastAddr

\* network and broadcast are reserved: the usable range is [first+1, last-1]
FirstUsable == NetworkAddr + 1
RangeSize == CidrSize - 2

UsedIPs(ps) == {ps[n].mesh_ip : n \in DOMAIN ps}

\* hash reduced into the range, then probe +1 mod range_size
RECURSIVE ProbeFrom(_, _, _)
ProbeFrom(start, i, used) ==
    IF i >= RangeSize THEN NoIP
    ELSE LET ip == FirstUsable + ((start + i) % RangeSize)
         IN IF ip \notin used THEN ip ELSE ProbeFrom(start, i + 1, used)

AllocateIgnoringUsed(name, used) == FirstUsable + (hashOf[name] % RangeSize)

AllocateIP(name, used) == ProbeFrom(hashOf[name] % RangeSize, 0, used)

NewPeer(ip, key, t) ==
    [mesh_ip |-> ip, public_key |-> key, registered_at |-> t, last_seen |-> t]

UpdatePeerResetsRegistration(rec, key, t) ==
    [rec EXCEPT !.public_key = key, !.last_seen = t, !.registered_at = t]

UpdatePeer(rec, key, t) ==
    [rec EXCEPT !.public_key = key, !.last_seen = t]

AuthorizedAlways(bearer) == TRUE

Authorized(bearer) == bearer = AuthToken

\* the name is held by a peer with another public key
KeyConflictNever(rec, key) == FALSE

KeyConflict(rec, key) == rec.public_key # key

DirInit ==
    /\ peers = <<>>
    /\ hashOf \in [Names -> 0 .. HashSpace - 1]
    /\ now = 0
    /\ resp = NoResp
    /\ firstIP = [n \in Names |-> NoIP]
    /\ stableIP = [n \in Names |-> NoIP]

Reject(status) ==
    /\ resp' = [status |-> status, mesh_ip |-> NoIP]
    /\ UNCHANGED peers

\* POST /api/v1/register
Register(name, key, bearer) ==
    /\ UNCHANGED <<hashOf, now>>
    /\ IF ~Authorized(bearer) THEN Reject("unauthorized")
       ELSE IF name \in DOMAIN peers
       THEN IF KeyConflict(peers[name], key)
            THEN Reject("conflict")
            ELSE /\ peers' = [peers EXCEPT ![name] = UpdatePeer(@, key, now)]
                 /\ resp' = [status |-> "ok", mesh_ip |-> peers[name].mesh_ip]
       ELSE LET ip == AllocateIP(name, UsedIPs(peers))
            IN IF ip = NoIP THEN Reject("internal")
               ELSE /\ peers' = [n \in DOMAIN peers \cup {name} |->
                                   IF n = name THEN NewPeer(ip, key, now)
                                   ELSE peers[n]]
                    /\ resp' = [status |-> "ok", mesh_ip |-> ip]

\* POST /api/v1/heartbeat
Heartbeat(name, key, bearer) ==
    /\ UNCHANGED <<hashOf, now>>
    /\ IF ~Authorized(bearer) THEN Reject("unauthorized")
       ELSE IF name \notin DOMAIN peers \/ peers[name].public_key # key
       THEN Reject("not_found")
       ELSE /\ peers' = [peers EXCEPT ![name].last_seen = now]
            /\ resp' = [status |-> "ok", mesh_ip |-> NoIP]

\* DELETE /api/v1/peers/{name}
Deregister(name, bearer) ==
    /\ UNCHANGED <<hashOf, now>>
    /\ IF ~Authorized(bearer) THEN Reject("unauthorized")
       ELSE /\ peers' = [n \in DOMAIN peers \ {name} |-> peers[n]]
            /\ resp' = [status |-> "ok", mesh_ip |-> NoIP]

Tick ==
    /\ now < MaxTime
    /\ now' = now + 1
    /\ UNCHANGED <<peers, hashOf, resp>>

(***************************************************************************)
(* Relay hub                                                               *)
(***************************************************************************)
Conns == 1 .. MaxEvents

\* peer names as byte strings; the hub never looks inside a name, so
\* connection k presents a name already in use or the next unused one
NameA == <<97>>
NameB == <<98>>
NameC == <<99>>
PeerNames == {NameA, NameB, NameC}
NameOrder == <<NameA, NameB, NameC>>
NoBearer == <<>>

Payloads == {<<7>>, <<8>>}

MsgTypeSendPacket == 1
MsgTypeRecvPacket == 2
MsgTypeHeartbeat == 3

\* capacity of the received channel
ReceivedCap == 10

\* client side of the wire format: 0x01 | target_len | target | payload
SendFrame(target, payload) ==
    <<MsgTypeSendPacket, Len(target)>> \o target \o payload

\* frames the hub skips: too short, not a SendPacket, target_len past the end
RawFrames == {<<MsgTypeSendPacket, 1>>,
              <<MsgTypeHeartbeat, 0, 0>>,
              <<MsgTypeSendPacket, 9, 97>>}

ClientFrames ==
    {SendFrame(t, p) : t \in PeerNames, p \in Payloads} \cup RawFrames

\* the hub's parse of a frame
TargetLen(data) == data[2]
TargetPeer(data) == SubSeq(data, 3, 2 + TargetLen(data))
PacketData(data) == SubSeq(data, 3 + TargetLen(data), Len(data))

Routable(data) ==
    /\ Len(data) >= 3
    /\ data[1] = MsgTypeSendPacket
    /\ Len(data) >= 2 + TargetLen(data)

\* the recv message the hub builds: 0x02 | src_len | src | payload
RecvMessage(src, packet) ==
    <<MsgTypeRecvPacket, Len(src) % 256>> \o src \o packet

RelayMessage(src, data) ==
    [source |-> src, target |-> TargetPeer(data), data |-> PacketData(data)]

NoWrite == [targetConn |-> 0, msg |-> <<>>, other |-> <<>>]

\* connections on which the hub has called conn.Close()
HubClosed == {c \in Conns : pc[c] = "closed"}

RelayInit ==
    /\ connections = <<>>
    /\ received = <<>>
    /\ peerName = [c \in Conns |-> NoBearer]
    /\ pc = [c \in Conns |-> "idle"]
    /\ wire = [c \in Conns |-> <<>>]
    /\ cur = [c \in Conns |-> NoWrite]
    /\ events = 0

NextConn(c) == pc[c] = "idle" /\ \A d \in Conns : d < c => pc[d] # "idle"

NamesInUse == {peerName[c] : c \in Conns} \ {NoBearer}

Bearer ==
    NamesInUse \cup
    (IF Cardinality(NamesInUse) < Len(NameOrder)
     THEN {NameOrder[Cardinality(NamesInUse) + 1]} ELSE {})

\* a request without a bearer token is answered 401 before the upgrade
ConnectUnauthorized(c) ==
    /\ UNCHANGED <<dirVars, histVars, extVars>>
    /\ NextConn(c)
    /\ events < MaxEvents
    /\ events' = events + 1
    /\ pc' = [pc EXCEPT ![c] = "unauthorized"]
    /\ UNCHANGED <<connections, received, peerName, wire, cur>>

\* m.connections[peerName] = conn
StoreSession(conns, name, c) ==
    [n \in DOMAIN conns \cup {name} |-> IF n = name THEN c ELSE conns[n]]

\* upgrade, then the session is stored under the bearer's name
Connect(c, name) ==
    /\ UNCHANGED <<dirVars, histVars, extVars>>
    /\ NextConn(c)
    /\ name \in Bearer
    /\ peerName' = [peerName EXCEPT ![c] = name]
    /\ connections' = StoreSession(connections, name, c)
    /\ pc' = [pc EXCEPT ![c] = "read"]
    /\ events < MaxEvents
    /\ events' = events + 1
    /\ UNCHANGED <<received, wire, cur>>

\* conn.ReadMessage returns a frame the peer wrote that the loop skips with
\* `continue`
ReadSkip(c, data) ==
    /\ UNCHANGED <<dirVars, histVars, extVars>>
    /\ pc[c] = "read"
    /\ events < MaxEvents
    /\ ~Routable(data)
    /\ events' = events + 1
    /\ UNCHANGED <<connections, received, peerName, pc, wire, cur>>


DropWithError(c) ==
    /\ wire' = [wire EXCEPT ![c] = Append(@, <<5, 0, 0>>)]
    /\ UNCHANGED <<pc, cur>>

\* target not connected: nothing is written, the loop goes on reading
DropSilently(c) == UNCHANGED <<pc, wire, cur>>

\* handlers inside WriteMessage on connection t
WritersOn(t) == {d \in Conns : pc[d] = "write" /\ cur[d].targetConn = t}

\* target connected: the handler goes on to targetConn.WriteMessage(msg),
\* outside the lock and unsynchronised with other handlers writing to the
\* same connection
BeginWrite(c, t, msg) ==
    /\ pc' = [pc EXCEPT ![c] = "write"]
    /\ \E o \in IF WritersOn(t) = {} THEN {<<>>}
                ELSE {cur[d].msg : d \in WritersOn(t)} :
          cur' = [d \in Conns |->
                    IF d = c THEN [targetConn |-> t, msg |-> msg, other |-> o]
                    ELSE IF d \in WritersOn(t) /\ cur[d].other = <<>>
                    THEN [cur[d] EXCEPT !.other = msg]
                    ELSE cur[d]]
    /\ UNCHANGED wire

\* conn.ReadMessage returns a SendPacket frame the peer wrote: it is put on
\* m.received, the target is looked up under the lock and the recv message
\* is built
ReadRoute(c, data) ==
    /\ UNCHANGED <<dirVars, histVars, extVars>>
    /\ pc[c] = "read"
    /\ events < MaxEvents
    /\ Routable(data)
    /\ Len(received) < ReceivedCap
    /\ events' = events + 1
    /\ received' = Append(received, RelayMessage(peerName[c], data))
    /\ IF TargetPeer(data) \in DOMAIN connections
       THEN BeginWrite(c, connections[TargetPeer(data)],
                       RecvMessage(peerName[c], PacketData(data)))
       ELSE DropSilently(c)
    /\ UNCHANGED <<connections, peerName>>

\* WriteMessage returns; its error (the connection was closed) is ignored
WriteMessage(c) ==
    /\ UNCHANGED <<dirVars, histVars, extVars>>
    /\ pc[c] = "write"
    /\ pc' = [pc EXCEPT ![c] = "read"]
    /\ cur' = [cur EXCEPT ![c] = NoWrite]
    /\ wire' = IF cur[c].targetConn \notin HubClosed
               THEN [wire EXCEPT ![cur[c].targetConn] = Append(@, cur[c].msg)]
               ELSE wire
    /\ UNCHANGED <<connections, received, peerName, events>>

\* bytes 1..k of m, the rest from o: two WriteMessage calls filled the
\* connection's write buffer at the same time
Splice(m, o, k) ==
    [i \in 1 .. Len(m) |-> IF i <= k \/ i > Len(o) THEN m[i] ELSE o[i]]

\* a concurrent WriteMessage on the same connection: the frame that goes out
\* holds bytes of the other writer's message
WriteGarbled(c) ==
    /\ UNCHANGED <<dirVars, histVars, extVars>>
    /\ pc[c] = "write"
    /\ cur[c].other # <<>>
    /\ cur[c].targetConn \notin HubClosed
    /\ pc' = [pc EXCEPT ![c] = "read"]
    /\ cur' = [cur EXCEPT ![c] = NoWrite]
    /\ \E k \in 0 .. Len(cur[c].msg) :
          /\ Splice(cur[c].msg, cur[c].other, k) # cur[c].msg
          /\ wire' = [wire EXCEPT ![cur[c].targetConn] =
                         Append(@, Splice(cur[c].msg, cur[c].other, k))]
    /\ UNCHANGED <<connections, received, peerName, events>>

\* delete(m.connections, peerName)
RemoveSession(conns, name, c) == [n \in DOMAIN conns \ {name} |-> conns[n]]

\* the deferred function: the session is deleted, the connection closed
Cleanup(c) ==
    /\ connections' = RemoveSession(connections, peerName[c], c)
    /\ pc' = [pc EXCEPT ![c] = "closed"]
    /\ cur' = [cur EXCEPT ![c] = NoWrite]

\* a concurrent WriteMessage on the same connection, detected by the
\* websocket library: the handler panics and its deferred function runs
WritePanic(c) ==
    /\ UNCHANGED <<dirVars, histVars, extVars>>
    /\ pc[c] = "write"
    /\ cur[c].other # <<>>
    /\ Cleanup(c)
    /\ UNCHANGED <<received, peerName, wire, events>>

\* the peer closes its connection: conn.ReadMessage fails and the handler
\* returns
ReadError(c) ==
    /\ UNCHANGED <<dirVars, histVars, extVars>>
    /\ pc[c] = "read"
    /\ events < MaxEvents
    /\ events' = events + 1
    /\ Cleanup(c)
    /\ UNCHANGED <<received, peerName, wire>>

RelayNext ==
    \/ \E c \in Conns : ConnectUnauthorized(c)
    \/ \E c \in Conns, n \in PeerNames : Connect(c, n)
    \/ \E c \in Conns, f \in ClientFrames : ReadSkip(c, f)
    \/ \E c \in Conns, f \in ClientFrames : ReadRoute(c, f)
    \/ \E c \in Conns : WriteMessage(c)
    \/ \E c \in Conns : WriteGarbled(c)
    \/ \E c \in Conns : WritePanic(c)
    \/ \E c \in Conns : ReadError(c)

(***************************************************************************)
(* Token authority (auth.go, over golang-jwt/jwt v5)                       *)
(***************************************************************************)
\* TokenExpiry, in ticks
TokenExpiry == TokenExpirySeconds * TicksPerSecond
\* the clock runs until the second after the expiry of a token issued late
MaxClock == TokenExpiry + 2 * TicksPerSecond

TokenNames == {"alice", "bob"}
TokenIPs == {"10.99.0.1", "10.99.0.2"}
OtherSecret == "other-secret"
\* signing methods a token header can name; the first two are
\* *jwt.SigningMethodHMAC
HMACMethods == {"HS256", "HS384"}
Methods == HMACMethods \cup {"RS256", "none"}

\* jwt.NewNumericDate: the time truncated to jwt.TimePrecision (one second)
NewNumericDate(t) == t - (t % TicksPerSecond)

\* JWTClaims as GenerateToken fills them at time t
NewClaims(name, ip, t) ==
    [peer_name |-> name, mesh_ip |-> ip,
     exp |-> NewNumericDate(t + TokenExpiry), iat |-> NewNumericDate(t),
     iss |-> "tunnelmesh"]

\* the HMAC of the signing string (header and claims) under a key: equal
\* signatures only for equal method, claims and key
Sign(method, claims, key) == <<method, claims, key>>

\* token.SignedString(key)
SignedString(method, claims, key) ==
    [alg |-> method, claims |-> claims, sig |-> Sign(method, claims, key)]

NoToken == [alg |-> "", claims |-> <<>>, sig |-> <<>>]
NoClaims == [peer_name |-> "", mesh_ip |-> ""]
NoValidation ==
    [token |-> NoToken, at |-> 0, err |-> "none", claims |-> NoClaims]

TokenInit ==
    /\ clock = 0
    /\ issued = NoToken
    /\ validation = NoValidation

TokenFrame ==
    UNCHANGED <<dirVars, histVars, relayVars, benchVars, codecVars,
                chaosVars, paceVars, retryVars, routeVars, lifeVars,
                heartbeatVars, sessionsVars, rejoinVars, grantVars>>

ClockTick ==
    /\ TokenFrame
    /\ clock < MaxClock
    /\ clock' = clock + 1
    /\ UNCHANGED <<issued, validation>>

GenerateTokenAt(name, ip, t) ==
    SignedString("HS256", NewClaims(name, ip, t), AuthToken)

GenerateToken(name, ip) ==
    /\ TokenFrame
    /\ clock + TokenExpiry + TicksPerSecond <= MaxClock
    /\ issued' = GenerateTokenAt(name, ip, clock)
    /\ UNCHANGED <<clock, validation>>

\* the Keyfunc of ValidateToken: the secret for an HMAC method, else an error
NoKey == ""
KeyFunc(method) == IF method \in HMACMethods THEN AuthToken ELSE NoKey

\* SigningMethod.Verify with a []byte key: the HMAC methods compare the
\* signature; RS256 and none do not take such a key
MethodVerify(method, claims, sig, key) ==
    /\ method \in HMACMethods
    /\ sig = Sign(method, claims, key)

SignatureOk(tok) ==
    MethodVerify(tok.alg, tok.claims, tok.sig, KeyFunc(tok.alg))

\* Validator.verifyExpiresAt, no leeway: now.Before(exp)
VerifyExpiresAt(claims, t) == t < claims.exp

\* jwt.ParseWithClaims: key lookup, signature, then the registered claims
\* (exp; iat is not verified unless jwt.WithIssuedAt is given)
ParseWithClaims(tok, t) ==
    IF KeyFunc(tok.alg) = NoKey THEN "unverifiable"
    ELSE IF ~SignatureOk(tok) THEN "signature_invalid"
    ELSE IF ~VerifyExpiresAt(tok.claims, t) THEN "expired"
    ELSE "valid"

\* what a client can present once it holds a token: a token with the header
\* method m, the claims of that token with name n and the expiry moved by
\* extend seconds, and a signature that is the one of the token it holds,
\* empty, or made with a secret of its own
SigKinds == {"kept", "empty", "own"}

Present(tok, m, n, extend, kind) ==
    LET c == [tok.claims EXCEPT !.peer_name = n,
                                !.exp = @ + extend * TicksPerSecond]
    IN [alg |-> m, claims |-> c,
        sig |-> CASE kind = "kept" -> tok.sig
                  [] kind = "empty" -> <<>>
                  [] kind = "own" -> Sign(m, c, OtherSecret)]

\* Server.ValidateToken on the presented token
ValidateToken(m, n, extend, kind) ==
    /\ TokenFrame
    /\ issued # NoToken
    /\ LET tok == Present(issued, m, n, extend, kind)
           err == ParseWithClaims(tok, clock)
       IN validation' =
            [token |-> tok, at |-> clock, err |-> err,
             claims |-> IF err = "valid"
                        THEN [peer_name |-> tok.claims.peer_name,
                              mesh_ip |-> tok.claims.mesh_ip]
                        ELSE NoClaims]
    /\ UNCHANGED <<clock, issued>>

TokenNext ==
    \/ ClockTick
    \/ \E n \in TokenNames, ip \in TokenIPs : GenerateToken(n, ip)
    \/ \E m \in Methods, n \in TokenNames, extend \in 0 .. 1,
          kind \in SigKinds :
            ValidateToken(m, n, extend, kind)

\* what a peer holds before any token is issued to it: the shared auth token
\* it presents as bearer on every request to the directory
\* (server_test.go:53, "Bearer test-token"), and secrets of its own
HeldSecrets == {AuthToken, OtherSecret}

\* a peer builds a token for the name n by itself, as GenerateToken does but
\* with a secret it holds, and presents it to Server.ValidateToken
ForgeToken(n, ip, key) ==
    /\ TokenFrame
    /\ clock + TokenExpiry + TicksPerSecond <= MaxClock
    /\ LET tok == SignedString("HS256", NewClaims(n, ip, clock), key)
           err == ParseWithClaims(tok, clock)
       IN validation' =
            [token |-> tok, at |-> clock, err |-> err,
             claims |-> IF err = "valid"
                        THEN [peer_name |-> tok.claims.peer_name,
                              mesh_ip |-> tok.claims.mesh_ip]
                        ELSE NoClaims]
    /\ UNCHANGED <<clock, issued>>

ForgeNext ==
    \/ TokenNext
    \/ \E n \in TokenNames, ip \in TokenIPs, key \in HeldSecrets :
           ForgeToken(n, ip, key)

(***************************************************************************)
(* Benchmark engine: Client.Run (client.go) against the benchmark server   *)
(* (its source file is not part of the tree; modelled from the design      *)
(* document, section 4.K, and server_test.go).                             *)
(***************************************************************************)
DirectionUpload == "upload"
DirectionDownload == "download"

\* a protocol message; the fields a type does not have are 0 and ""
Frame(type, seq, n, text) == [type |-> type, seq |-> seq, n |-> n, text |-> text]
StartMessage(size, direction) == Frame("Start", 0, size, direction)
AckMessage(accepted, error) == Frame("Ack", 0, IF accepted THEN 1 ELSE 0, error)
DataMessage(seq, len) == Frame("Data", seq, len, "")
PingMessage(seq, ts) == Frame("Ping", seq, ts, "")
PongMessage(seq, ts) == Frame("Pong", seq, ts, "")
CompleteMessage(bytes) == Frame("Complete", 0, bytes, "")
ErrorMessage(error) == Frame("Error", 0, 0, error)

\* cfg.Size values tried, one of them invalid
BenchSizes == 0 .. MaxSize

NoConfig == [size |-> 0, direction |-> "", loss |-> FALSE]
\* Run returned (nil, err): there is no Result
NoResult ==
    [present |-> FALSE, success |-> FALSE, error |-> "",
     requested |-> 0, transferred |-> 0]
NewResult(cfg) ==
    [present |-> TRUE, success |-> FALSE, error |-> "",
     requested |-> cfg.size, transferred |-> 0]

BenchInit ==
    /\ bpc = "idle"
    /\ bcfg = NoConfig
    /\ bresult = NoResult
    /\ berr = ""
    /\ sent = 0
    /\ seqNum = 0
    /\ bytesReceived = 0
    /\ after = ""
    /\ c2s = <<>>
    /\ s2c = <<>>
    /\ clog = <<>>
    /\ emitted = <<>>
    /\ firstReply = Frame("", 0, 0, "")
    /\ probes = <<>>
    /\ spc = "accept"
    /\ sstart = Frame("", 0, 0, "")
    /\ srule = ""
    /\ sbytes = 0
    /\ sread = <<>>
    /\ slog = <<>>
    /\ connBroken = FALSE
    /\ cancelled = FALSE

BenchFrame ==
    UNCHANGED <<dirVars, histVars, relayVars, tokenVars, codecVars,
                chaosVars, paceVars, retryVars, routeVars, lifeVars,
                heartbeatVars, sessionsVars, rejoinVars, grantVars>>

clientVars == <<bpc, bcfg, bresult, berr, sent, seqNum, bytesReceived, after,
                clog, emitted, firstReply, probes>>
serverVars == <<spc, sstart, srule, sbytes, sread, slog>>

\* Run returns result and err
Return(result, err) ==
    /\ bpc' = "returned"
    /\ bresult' = result
    /\ berr' = err

\* Run, lines 96-113: the transfer has ended with runErr
Finish(result, runErr) ==
    IF runErr # ""
    THEN Return([result EXCEPT !.success = FALSE, !.error = runErr], runErr)
    ELSE Return([result EXCEPT !.success = TRUE], "")

\* WriteMessage(conn, ...) by the client
ClientWrite(frame) ==
    /\ c2s' = Append(c2s, frame)
    /\ clog' = Append(clog, frame)
    /\ emitted' = Append(emitted, frame)

\* Run, lines 32-50: defaults, validation, the Result
Run(size, direction, loss) ==
    /\ BenchFrame
    /\ bpc = "idle"
    /\ LET cfg == [size |-> size,
                   direction |-> IF direction = "" THEN DirectionUpload
                                 ELSE direction,
                   loss |-> loss]
       IN /\ bcfg' = cfg
          /\ IF size <= 0
             THEN Return(NoResult, "invalid config")
             ELSE /\ bpc' = "dial"
                  /\ bresult' = NewResult(cfg)
                  /\ berr' = ""
    /\ UNCHANGED <<sent, seqNum, bytesReceived, after, c2s, s2c, clog, emitted,
                   firstReply, probes, serverVars, connBroken, cancelled>>

\* Run, lines 52-58: the dial fails
DialFail ==
    /\ BenchFrame
    /\ bpc = "dial"
    /\ Return(NoResult, "failed to connect")
    /\ UNCHANGED <<bcfg, sent, seqNum, bytesReceived, after, c2s, s2c, clog, emitted,
                   firstReply, probes, serverVars, connBroken, cancelled>>

\* Run, lines 52-70: connected, the Start message is written
SendStart ==
    /\ BenchFrame
    /\ bpc = "dial"
    /\ IF connBroken
       THEN /\ Return(NoResult, "failed to send start")
            /\ UNCHANGED <<c2s, clog, emitted>>
       ELSE /\ ClientWrite(StartMessage(bcfg.size, bcfg.direction))
            /\ bpc' = "ack"
            /\ UNCHANGED <<bresult, berr>>
    /\ UNCHANGED <<bcfg, sent, seqNum, bytesReceived, after, s2c,
                   firstReply, probes, serverVars, connBroken, cancelled>>

\* AckMessage.Decode: m.Accepted = accepted != 0
AckIgnored(ack) == TRUE

AckAccepted(ack) == ack.n # 0

\* a read on the connection can fail: the connection is lost, or nothing is
\* there to read and the peer has closed or the read deadline passes (a
\* deadline is set from the first latency probe on)
ReadCanFail ==
    \/ connBroken
    \/ s2c = <<>> /\ (spc = "closed" \/ bpc # "ack")
Readable == ~connBroken /\ s2c # <<>>

\* Run, lines 72-103: the reply to Start is read
ReadAck ==
    /\ BenchFrame
    /\ bpc = "ack"
    /\ Readable
    /\ LET mt == Head(s2c).type
       IN /\ s2c' = Tail(s2c)
          /\ firstReply' = Head(s2c)
          /\ IF mt # "Ack"
             THEN /\ Return(NoResult, IF mt = "Error"
                                      THEN "server rejected benchmark"
                                      ELSE "expected Ack")
                  /\ UNCHANGED after
             ELSE IF ~AckAccepted(Head(s2c))
             THEN /\ Return(NoResult, "server rejected benchmark")
                  /\ UNCHANGED after
             ELSE /\ bpc' = "ping_w"
                  /\ after' = IF bcfg.direction = DirectionUpload
                              THEN "up_loop" ELSE "down_loop"
                  /\ UNCHANGED <<bresult, berr>>
    /\ UNCHANGED <<bcfg, sent, seqNum, bytesReceived, c2s, clog, emitted, probes,
                   serverVars, connBroken, cancelled>>

\* the seqNum argument of the measureLatency call in progress
ProbeSeq == IF after = "up_complete" THEN seqNum + 1 ELSE seqNum

\* measureLatency, lines 280-288: the Ping is written
PingWrite ==
    /\ BenchFrame
    /\ bpc = "ping_w"
    /\ IF connBroken
       THEN /\ bpc' = after
            /\ UNCHANGED <<c2s, clog, emitted>>
       ELSE /\ ClientWrite(PingMessage(ProbeSeq, Len(clog)))
            /\ bpc' = "ping_r"
    /\ UNCHANGED <<bcfg, bresult, berr, sent, seqNum, bytesReceived, after,
                   s2c, firstReply, probes, serverVars, connBroken, cancelled>>

\* measureLatency, lines 290-306: the next message is read as the Pong
PingRead ==
    /\ BenchFrame
    /\ bpc = "ping_r"
    /\ Readable
    /\ s2c' = Tail(s2c)
    /\ probes' = Append(probes, [seq |-> ProbeSeq, got |-> Head(s2c)])
    /\ bpc' = after
    /\ UNCHANGED <<bcfg, bresult, berr, sent, seqNum, bytesReceived, after,
                   c2s, clog, emitted, firstReply, serverVars, connBroken, cancelled>>

\* runUpload, lines 141-146, and runDownload, lines 238-243: ctx is done
Cancelled ==
    /\ BenchFrame
    /\ \/ bpc = "up_loop" /\ sent < bcfg.size
       \/ bpc = "down_loop"
    /\ cancelled
    /\ Finish(bresult, "context canceled")
    /\ UNCHANGED <<bcfg, sent, seqNum, bytesReceived, after, c2s, s2c, clog, emitted,
                   firstReply, probes, serverVars, connBroken, cancelled>>

Min(a, b) == IF a < b THEN a ELSE b

\* runUpload, lines 148-153: the size of the next chunk
DataSizeWhole(remaining) == ChunkSize

DataSize(remaining) == Min(ChunkSize, remaining)

\* runUpload, lines 148-185: one Data message of the loop; with chaos the
\* writer may drop it and report it written
UploadData(dropped) ==
    /\ BenchFrame
    /\ bpc = "up_loop"
    /\ sent < bcfg.size
    /\ ~cancelled
    /\ dropped => bcfg.loss
    /\ LET dataSize == DataSize(bcfg.size - sent)
       IN IF connBroken /\ ~dropped
          THEN /\ Finish(bresult, "failed to send data")
               /\ UNCHANGED <<c2s, clog, emitted, sent, seqNum, after>>
          ELSE /\ IF dropped
                  THEN /\ emitted' =
                              Append(emitted, DataMessage(seqNum, dataSize))
                       /\ UNCHANGED <<c2s, clog>>
                  ELSE ClientWrite(DataMessage(seqNum, dataSize))
               /\ sent' = sent + dataSize
               /\ seqNum' = seqNum + 1
               /\ IF (seqNum + 1) % PingEvery = 0
                  THEN bpc' = "ping_w" /\ after' = "up_loop"
                  ELSE UNCHANGED <<bpc, after>>
               /\ UNCHANGED <<bresult, berr>>
    /\ UNCHANGED <<bcfg, bytesReceived, s2c, firstReply, probes, serverVars,
                   connBroken, cancelled>>

\* runUpload, lines 187-191: all data sent, the final probe
UploadFinalPing ==
    /\ BenchFrame
    /\ bpc = "up_loop"
    /\ sent >= bcfg.size
    /\ bpc' = "ping_w"
    /\ after' = "up_complete"
    /\ UNCHANGED <<bcfg, bresult, berr, sent, seqNum, bytesReceived, c2s, s2c,
                   clog, emitted, firstReply, probes, serverVars, connBroken, cancelled>>

\* runUpload, lines 193-201: the client's Complete
UploadComplete ==
    /\ BenchFrame
    /\ bpc = "up_complete"
    /\ IF connBroken
       THEN /\ Finish(bresult, "failed to send complete")
            /\ UNCHANGED <<c2s, clog, emitted>>
       ELSE /\ ClientWrite(CompleteMessage(sent))
            /\ bpc' = "up_complete_r"
            /\ UNCHANGED <<bresult, berr>>
    /\ UNCHANGED <<bcfg, sent, seqNum, bytesReceived, after, s2c,
                   firstReply, probes, serverVars, connBroken, cancelled>>

\* runUpload, lines 209-211: mt != MsgComplete
NeverComplete(f) == FALSE

IsComplete(f) == f.type = "Complete"

\* runUpload, lines 203-223: the server's Complete is read
UploadReadComplete ==
    /\ BenchFrame
    /\ bpc = "up_complete_r"
    /\ Readable
    /\ s2c' = Tail(s2c)
    /\ IF ~IsComplete(Head(s2c))
       THEN Finish(bresult, "expected Complete")
       ELSE Finish([bresult EXCEPT !.transferred = sent], "")
    /\ UNCHANGED <<bcfg, sent, seqNum, bytesReceived, after, c2s, clog, emitted,
                   firstReply, probes, serverVars, connBroken, cancelled>>

\* runDownload, lines 245-275: one message of the receive loop
DownloadRead ==
    /\ BenchFrame
    /\ bpc = "down_loop"
    /\ ~cancelled
    /\ Readable
    /\ s2c' = Tail(s2c)
    /\ LET mt == Head(s2c).type
       IN CASE mt = "Data" ->
                 /\ bytesReceived' = bytesReceived + Head(s2c).n
                 /\ UNCHANGED <<bpc, bresult, berr>>
            [] mt = "Complete" ->
                 /\ Finish([bresult EXCEPT !.transferred = bytesReceived], "")
                 /\ UNCHANGED bytesReceived
            [] OTHER -> UNCHANGED <<bpc, bresult, berr, bytesReceived>>
    /\ UNCHANGED <<bcfg, sent, seqNum, after, c2s, clog, emitted, firstReply, probes,
                   serverVars, connBroken, cancelled>>

\* a ReadMessage of the client returns an error
ClientReadError ==
    /\ BenchFrame
    /\ ReadCanFail
    /\ CASE bpc = "ack" -> Return(NoResult, "failed to read ack")
         [] bpc = "ping_r" -> bpc' = after /\ UNCHANGED <<bresult, berr>>
         [] bpc = "up_complete_r" ->
              Finish(bresult, "failed to read server complete")
         [] bpc = "down_loop" /\ ~cancelled ->
              Finish(bresult, "failed to read message")
         [] OTHER -> FALSE
    /\ UNCHANGED <<bcfg, sent, seqNum, bytesReceived, after, c2s, s2c, clog, emitted,
                   firstReply, probes, serverVars, connBroken, cancelled>>

\* ---- the benchmark server, per connection (section 4.K) ----
ServerWrite(frame) ==
    /\ s2c' = Append(s2c, frame)
    /\ slog' = Append(slog, frame)

ServerUp == ~connBroken /\ bpc # "returned"

\* when the upload loop of the server ends: with the client's Complete, as
\* the server of the repository's tests does (TestClient_Run_Upload succeeds
\* against it), or also once the announced size is consumed (section 4.K)
UntilComplete == "complete"
UntilSize == "size"

\* read Start, reply Ack{accepted=true}
ServerAccept(rule) ==
    /\ BenchFrame
    /\ ServerUp
    /\ spc = "accept"
    /\ c2s # <<>>
    /\ c2s' = Tail(c2s)
    /\ sstart' = Head(c2s)
    /\ srule' = rule
    /\ sread' = Append(sread, Head(c2s))
    /\ ServerWrite(AckMessage(TRUE, ""))
    /\ spc' = Head(c2s).text
    /\ UNCHANGED <<clientVars, sbytes, connBroken, cancelled>>

\* read Start, refuse it: Ack{accepted=false, error}, or what a peer that is
\* no benchmark server answers; then close
ServerRefuse(reply) ==
    /\ BenchFrame
    /\ ServerUp
    /\ spc = "accept"
    /\ c2s # <<>>
    /\ c2s' = Tail(c2s)
    /\ sread' = Append(sread, Head(c2s))
    /\ ServerWrite(reply)
    /\ spc' = "closed"
    /\ UNCHANGED <<clientVars, sstart, srule, sbytes, connBroken, cancelled>>

PongWrongSeq(ping) == PongMessage(ping.seq + 1, ping.n)

\* the Pong for a Ping: same seq, the Ping's timestamp
PongFor(ping) == PongMessage(ping.seq, ping.n)

\* upload: read the next message, unless the reading has ended with the
\* announced size consumed: Data is counted, a Ping is answered at once, the
\* client's Complete ends the reading and is answered with the server's
ServerUploadRead ==
    /\ BenchFrame
    /\ ServerUp
    /\ spc = "upload"
    /\ srule = UntilSize => sbytes < sstart.n
    /\ c2s # <<>>
    /\ c2s' = Tail(c2s)
    /\ sread' = Append(sread, Head(c2s))
    /\ LET f == Head(c2s)
       IN CASE f.type = "Data" ->
                 /\ sbytes' = sbytes + f.n
                 /\ UNCHANGED <<s2c, slog, spc>>
            [] f.type = "Ping" ->
                 /\ ServerWrite(PongFor(f))
                 /\ UNCHANGED <<sbytes, spc>>
            [] f.type = "Complete" ->
                 /\ ServerWrite(CompleteMessage(sbytes))
                 /\ spc' = "closed"
                 /\ UNCHANGED sbytes
            [] OTHER -> UNCHANGED <<s2c, slog, spc, sbytes>>
    /\ UNCHANGED <<clientVars, sstart, srule, connBroken, cancelled>>

\* upload, a server that reads until the announced size is consumed: its
\* Complete
ServerUploadComplete ==
    /\ BenchFrame
    /\ ServerUp
    /\ spc = "upload"
    /\ srule = UntilSize
    /\ sbytes >= sstart.n
    /\ ServerWrite(CompleteMessage(sbytes))
    /\ spc' = "closed"
    /\ UNCHANGED <<clientVars, c2s, sstart, srule, sbytes, sread, connBroken,
                   cancelled>>

\* download: the next chunk of at most ChunkSize bytes
ServerDownloadData ==
    /\ BenchFrame
    /\ ServerUp
    /\ spc = "download"
    /\ sbytes < sstart.n
    /\ ServerWrite(DataMessage(0, Min(ChunkSize, sstart.n - sbytes)))
    /\ sbytes' = sbytes + Min(ChunkSize, sstart.n - sbytes)
    /\ UNCHANGED <<clientVars, c2s, spc, sstart, srule, sread, connBroken, cancelled>>

\* download: a Ping of the client is answered between two chunks
ServerDownloadPong ==
    /\ BenchFrame
    /\ ServerUp
    /\ spc = "download"
    /\ c2s # <<>>
    /\ c2s' = Tail(c2s)
    /\ sread' = Append(sread, Head(c2s))
    /\ IF Head(c2s).type = "Ping"
       THEN ServerWrite(PongFor(Head(c2s)))
       ELSE UNCHANGED <<s2c, slog>>
    /\ UNCHANGED <<clientVars, spc, sstart, srule, sbytes, connBroken, cancelled>>

\* download: size bytes are sent, Complete{bytes}
ServerDownloadComplete ==
    /\ BenchFrame
    /\ ServerUp
    /\ spc = "download"
    /\ sbytes >= sstart.n
    /\ ServerWrite(CompleteMessage(sbytes))
    /\ spc' = "closed"
    /\ UNCHANGED <<clientVars, c2s, sstart, srule, sbytes, sread, connBroken,
                   cancelled>>

\* ---- the environment of a run ----
\* the connection is lost
ConnBreak ==
    /\ BenchFrame
    /\ bpc \notin {"idle", "returned"}
    /\ ~connBroken
    /\ connBroken' = TRUE
    /\ UNCHANGED <<clientVars, serverVars, c2s, s2c, cancelled>>

\* ctx is cancelled
Cancel ==
    /\ BenchFrame
    /\ bpc \notin {"idle", "returned"}
    /\ ~cancelled
    /\ cancelled' = TRUE
    /\ UNCHANGED <<clientVars, serverVars, c2s, s2c, connBroken>>

Refusals ==
    {AckMessage(FALSE, "busy"), ErrorMessage("busy"), DataMessage(0, 1)}

BenchNext ==
    \/ \E size \in BenchSizes, d \in {"", DirectionUpload, DirectionDownload},
          loss \in BOOLEAN : Run(size, d, loss)
    \/ DialFail
    \/ SendStart
    \/ ReadAck
    \/ PingWrite
    \/ PingRead
    \/ Cancelled
    \/ \E dropped \in BOOLEAN : UploadData(dropped)
    \/ UploadFinalPing
    \/ UploadComplete
    \/ UploadReadComplete
    \/ DownloadRead
    \/ ClientReadError
    \/ ServerAccept(UntilComplete)
    \/ \E reply \in Refusals : ServerRefuse(reply)
    \/ ServerUploadRead
    \/ ServerDownloadData
    \/ ServerDownloadPong
    \/ ServerDownloadComplete
    \/ ConnBreak
    \/ Cancel

\* a run against a server of either kind
BenchServersNext ==
    \/ BenchNext
    \/ ServerAccept(UntilSize)
    \/ ServerUploadComplete

(***************************************************************************)
(* Benchmark protocol codec (protocol code at client_test.go:256-554)      *)
(***************************************************************************)
\* A byte string is kept as a sequence of runs [b |-> byte, n |-> count],
\* without empty runs and without two neighbouring runs of one byte, so that
\* equal byte strings are equal values and long strings stay small.
Run1(b) == <<[b |-> b, n |-> 1]>>
Fill(b, n) == IF n = 0 THEN <<>> ELSE <<[b |-> b, n |-> n]>>

RECURSIVE BLen(_)
BLen(s) == IF s = <<>> THEN 0 ELSE Head(s).n + BLen(Tail(s))

\* concatenation
Cat(s, t) ==
    IF s = <<>> THEN t
    ELSE IF t = <<>> THEN s
    ELSE IF s[Len(s)].b = t[1].b
         THEN SubSeq(s, 1, Len(s) - 1)
                  \o <<[b |-> t[1].b, n |-> s[Len(s)].n + t[1].n]>>
                  \o Tail(t)
         ELSE s \o t

\* the first k bytes, and what follows them
RECURSIVE Take(_, _)
Take(s, k) ==
    IF k <= 0 \/ s = <<>> THEN <<>>
    ELSE IF Head(s).n >= k THEN <<[b |-> Head(s).b, n |-> k]>>
    ELSE <<Head(s)>> \o Take(Tail(s), k - Head(s).n)

RECURSIVE Drop(_, _)
Drop(s, k) ==
    IF k <= 0 \/ s = <<>> THEN s
    ELSE IF Head(s).n > k
         THEN <<[b |-> Head(s).b, n |-> Head(s).n - k]>> \o Tail(s)
         ELSE Drop(Tail(s), k - Head(s).n)

\* binary.Write(w, binary.BigEndian, v) for an integer of w bytes: the low w
\* bytes of v in two's complement
RECURSIVE PutInt(_, _)
PutInt(v, w) ==
    IF w = 0 THEN <<>> ELSE Cat(PutInt(v \div 256, w - 1), Run1(v % 256))

\* binary.Read of an unsigned integer from the w bytes s
RECURSIVE GetUint(_, _)
GetUint(s, w) ==
    IF w = 0 THEN 0
    ELSE GetUint(Take(s, w - 1), w - 1) * 256 + Drop(s, w - 1)[1].b

\* binary.Read of a signed integer from the w bytes s
RECURSIVE GetInt(_, _)
GetInt(s, w) ==
    IF w = 1 THEN (IF s[1].b >= 128 THEN s[1].b - 256 ELSE s[1].b)
    ELSE GetInt(Take(s, w - 1), w - 1) * 256 + Drop(s, w - 1)[1].b

\* the protocol message types
MsgStart == 48
MsgAck == 49
MsgData == 50
MsgComplete == 51
MsgPing == 52
MsgPong == 53
MsgError == 63
MessageTypes ==
    {MsgStart, MsgAck, MsgData, MsgComplete, MsgPing, MsgPong, MsgError}

\* Max frame payload, 16 MiB (design document, section 6)
MaxFramePayload == 16 * 1024 * 1024

\* a message: a and b are its integer fields in the order of the struct (for
\* Ack, a is Accepted as 0 or 1), s its string or its data
Message(type, a, b, s) == [type |-> type, a |-> a, b |-> b, s |-> s]
NoMessage == Message(0, 0, 0, <<>>)

\* writeString: uint16(len(s)), then all bytes of s
WriteString(s) == Cat(PutInt(BLen(s), 2), s)

\* readString from the bytes d: the string and what follows it
ReadString(d) ==
    IF BLen(d) < 2 THEN [err |-> "EOF", s |-> <<>>, rest |-> <<>>]
    ELSE LET length == GetUint(Take(d, 2), 2)
         IN IF length = 0
            THEN [err |-> "", s |-> <<>>, rest |-> Drop(d, 2)]
            ELSE IF BLen(d) - 2 < length
            THEN [err |-> "unexpected EOF", s |-> <<>>, rest |-> <<>>]
            ELSE [err |-> "", s |-> Take(Drop(d, 2), length),
                  rest |-> Drop(d, 2 + length)]

\* the Encode method of the message's type
Encode(m) ==
    CASE m.type = MsgStart -> Cat(PutInt(m.a, 8), WriteString(m.s))
      [] m.type = MsgAck ->
           Cat(PutInt(IF m.a # 0 THEN 1 ELSE 0, 1), WriteString(m.s))
      [] m.type = MsgData ->
           Cat(PutInt(m.a, 4), Cat(PutInt(BLen(m.s), 4), m.s))
      [] m.type \in {MsgPing, MsgPong} -> Cat(PutInt(m.a, 4), PutInt(m.b, 8))
      [] m.type = MsgComplete -> Cat(PutInt(m.a, 8), PutInt(m.b, 8))
      [] m.type = MsgError -> WriteString(m.s)

Decoded(err, m) == [err |-> err, msg |-> IF err = "" THEN m ELSE NoMessage]

\* the Decode method of the type, on the payload d
Decode(type, d) ==
    CASE type = MsgStart ->
           IF BLen(d) < 8 THEN Decoded("EOF", NoMessage)
           ELSE LET str == ReadString(Drop(d, 8))
                IN Decoded(str.err,
                           Message(type, GetInt(Take(d, 8), 8), 0, str.s))
      [] type = MsgAck ->
           IF BLen(d) < 1 THEN Decoded("EOF", NoMessage)
           ELSE LET str == ReadString(Drop(d, 1))
                IN Decoded(str.err,
                           Message(type, IF GetUint(Take(d, 1), 1) # 0
                                         THEN 1 ELSE 0, 0, str.s))
      [] type = MsgData ->
           IF BLen(d) < 8 THEN Decoded("EOF", NoMessage)
           ELSE LET length == GetUint(Take(Drop(d, 4), 4), 4)
                IN IF BLen(d) - 8 < length
                   THEN Decoded("unexpected EOF", NoMessage)
                   ELSE Decoded("", Message(type, GetUint(Take(d, 4), 4), 0,
                                            Take(Drop(d, 8), length)))
      [] type \in {MsgPing, MsgPong} ->
           IF BLen(d) < 12 THEN Decoded("EOF", NoMessage)
           ELSE Decoded("", Message(type, GetUint(Take(d, 4), 4),
                                    GetInt(Take(Drop(d, 4), 8), 8), <<>>))
      [] type = MsgComplete ->
           IF BLen(d) < 16 THEN Decoded("EOF", NoMessage)
           ELSE Decoded("", Message(type, GetInt(Take(d, 8), 8),
                                    GetInt(Take(Drop(d, 8), 8), 8), <<>>))
      [] type = MsgError ->
           LET str == ReadString(d)
           IN Decoded(str.err, Message(type, 0, 0, str.s))

\* WriteMessage: type, uint32(len(payload)), payload
WriteMessageBytes(type, m) ==
    Cat(PutInt(type, 1), Cat(PutInt(BLen(Encode(m)), 4), Encode(m)))

\* ReadMessage on the bytes r: type, payload and what is left of r;
\* allocated is the size of the buffer made for the payload
ReadResult(err, type, data, rest, allocated) ==
    [err |-> err, type |-> type, data |-> data, rest |-> rest,
     allocated |-> allocated]

ReadMessageBytes(r) ==
    IF BLen(r) < 5 THEN ReadResult("EOF", 0, <<>>, <<>>, 0)
    ELSE LET msgType == GetUint(Take(r, 1), 1)
             length == GetUint(Take(Drop(r, 1), 4), 4)
         IN IF BLen(r) - 5 < length
            THEN ReadResult("unexpected EOF", 0, <<>>, <<>>, length)
            ELSE ReadResult("", msgType, Take(Drop(r, 5), length),
                            Drop(r, 5 + length), length)

\* the messages and frames the codec is exercised on
LongString == 256 * 256
CodecStrings ==
    {<<>>, Cat(Run1(117), Run1(112)), Fill(120, LongString - 1),
     Fill(120, LongString)}
CodecData == {<<>>, Cat(Run1(1), Run1(2)), Fill(0, LongString)}
CodecMessages ==
    {Message(MsgStart, a, 0, s) : a \in {-1, 0, 1024}, s \in CodecStrings}
    \cup {Message(MsgAck, a, 0, s) : a \in {0, 1}, s \in CodecStrings}
    \cup {Message(MsgData, a, 0, d) : a \in {0, 70000}, d \in CodecData}
    \cup {Message(t, a, b, <<>>) :
              t \in {MsgPing, MsgPong}, a \in {0, 70000}, b \in {-1, 5}}
    \cup {Message(MsgComplete, a, b, <<>>) : a \in {0, 1024}, b \in {0, 5}}
    \cup {Message(MsgError, 0, 0, s) : s \in CodecStrings}
UnknownTypes == {0, 54, 255}
FrameLengths == {0, 1, MaxFramePayload, MaxFramePayload + 1}
\* the bytes that follow a frame on the connection
Trailer == Run1(MsgPing)

NoDecoded == Decoded("none", NoMessage)
NoRead == ReadResult("none", 0, <<>>, <<>>, 0)

CodecInit ==
    /\ cstage = "idle"
    /\ cmsg = NoMessage
    /\ cbytes = <<>>
    /\ cdecoded = NoDecoded
    /\ cread = NoRead

CodecFrame ==
    UNCHANGED <<dirVars, histVars, relayVars, tokenVars, benchVars,
                chaosVars, paceVars, retryVars, routeVars, lifeVars,
                heartbeatVars, sessionsVars, rejoinVars, grantVars>>

\* the caller builds the message m
NewMessage(m) ==
    /\ cstage = "idle"
    /\ cmsg' = m
    /\ cstage' = "new"
    /\ UNCHANGED <<cbytes, cdecoded, cread>>
    /\ CodecFrame

EncodeMessage ==
    /\ cstage = "new"
    /\ cbytes' = Encode(cmsg)
    /\ cstage' = "encoded"
    /\ UNCHANGED <<cmsg, cdecoded, cread>>
    /\ CodecFrame

DecodeMessage ==
    /\ cstage = "encoded"
    /\ cdecoded' = Decode(cmsg.type, cbytes)
    /\ cstage' = "decoded"
    /\ UNCHANGED <<cmsg, cbytes, cread>>
    /\ CodecFrame

WriteFrame ==
    /\ cstage = "new"
    /\ cbytes' = Cat(WriteMessageBytes(cmsg.type, cmsg), Trailer)
    /\ cstage' = "written"
    /\ UNCHANGED <<cmsg, cdecoded, cread>>
    /\ CodecFrame

ReadFrame ==
    /\ cstage = "written"
    /\ cread' = ReadMessageBytes(cbytes)
    /\ cstage' = "read"
    /\ UNCHANGED <<cmsg, cbytes, cdecoded>>
    /\ CodecFrame

\* a peer sends a frame of its own making: any type byte, any length field,
\* and the payload either whole or cut off
PeerFrame(type, length, whole) ==
    /\ cstage = "idle"
    /\ UNCHANGED cmsg
    /\ cbytes' = Cat(PutInt(type, 1),
                     Cat(PutInt(length, 4),
                         IF whole THEN Cat(Fill(0, length), Trailer)
                         ELSE <<>>))
    /\ cstage' = "peer"
    /\ UNCHANGED <<cdecoded, cread>>
    /\ CodecFrame

ReadPeerFrame ==
    /\ cstage = "peer"
    /\ cread' = ReadMessageBytes(cbytes)
    /\ cstage' = "peer_read"
    /\ UNCHANGED <<cmsg, cbytes, cdecoded>>
    /\ CodecFrame

CodecNext ==
    \/ \E m \in CodecMessages : NewMessage(m)
    \/ EncodeMessage
    \/ DecodeMessage
    \/ WriteFrame
    \/ ReadFrame
    \/ \E type \in MessageTypes \cup UnknownTypes :
           \E length \in FrameLengths :
               \E whole \in BOOLEAN : PeerFrame(type, length, whole)
    \/ ReadPeerFrame

(***************************************************************************)
(* Chaos writer (src/unnamed/part_006)                                     *)
(***************************************************************************)
Writers == 1 .. NumWriters
WriteLens == {1, 2}

ChaosWriterStats(total, dropped, bytes, actual) ==
    [TotalWrites |-> total, DroppedWrites |-> dropped, TotalBytes |-> bytes,
     ActualBytes |-> actual]
ZeroStats == ChaosWriterStats(0, 0, 0, 0)

ChaosInit ==
    /\ built = FALSE
    /\ lossy = FALSE
    /\ stats = ZeroStats
    /\ wpc = [w \in Writers |-> "idle"]
    /\ wlen = [w \in Writers |-> 0]
    /\ calls = 0
    /\ seen = ZeroStats

ChaosFrame ==
    UNCHANGED <<dirVars, histVars, relayVars, tokenVars, benchVars,
                codecVars, paceVars, retryVars, routeVars, lifeVars,
                heartbeatVars, sessionsVars, rejoinVars, grantVars>>

\* NewChaosWriter with cfg.PacketLossPercent > 0 or not
NewChaosWriter(loss) ==
    /\ ~built
    /\ built' = TRUE
    /\ lossy' = loss
    /\ UNCHANGED <<stats, wpc, wlen, calls, seen>>
    /\ ChaosFrame

\* Write, first critical section: the call and its bytes are counted
WriteCount(w, n) ==
    /\ built
    /\ wpc[w] = "idle"
    /\ calls < MaxWrites
    /\ calls' = calls + 1
    /\ stats' = [stats EXCEPT !.TotalWrites = @ + 1, !.TotalBytes = @ + n]
    /\ wpc' = [wpc EXCEPT ![w] = "counted"]
    /\ wlen' = [wlen EXCEPT ![w] = n]
    /\ UNCHANGED <<built, lossy, seen>>
    /\ ChaosFrame

\* Write, packet loss: the write is dropped and reported as done
WriteDrop(w) ==
    /\ wpc[w] = "counted"
    /\ lossy
    /\ stats' = [stats EXCEPT !.DroppedWrites = @ + 1]
    /\ wpc' = [wpc EXCEPT ![w] = "idle"]
    /\ UNCHANGED <<built, lossy, wlen, calls, seen>>
    /\ ChaosFrame

\* Write, no loss: the underlying writer takes n bytes, which are counted
WriteThrough(w, whole) ==
    /\ wpc[w] = "counted"
    /\ stats' = [stats EXCEPT
                     !.ActualBytes = @ + (IF whole THEN wlen[w] ELSE 0)]
    /\ wpc' = [wpc EXCEPT ![w] = "idle"]
    /\ UNCHANGED <<built, lossy, wlen, calls, seen>>
    /\ ChaosFrame

\* Stats returns a copy of the statistics
Stats ==
    /\ built
    /\ seen' = stats
    /\ UNCHANGED <<built, lossy, stats, wpc, wlen, calls>>
    /\ ChaosFrame

Reset ==
    /\ built
    /\ stats' = ZeroStats
    /\ UNCHANGED <<built, lossy, wpc, wlen, calls, seen>>
    /\ ChaosFrame

ChaosNext ==
    \/ \E loss \in BOOLEAN : NewChaosWriter(loss)
    \/ \E w \in Writers : \E n \in WriteLens : WriteCount(w, n)
    \/ \E w \in Writers : WriteDrop(w)
    \/ \E w \in Writers : \E whole \in BOOLEAN : WriteThrough(w, whole)
    \/ Stats
    \/ Reset

(***************************************************************************)
(* Token bucket and one caller of the chaos writer (src/unnamed/part_006)  *)
(***************************************************************************)
\* Time is counted in ticks, TicksPerSecond to the second.  The float64
\* fields tokens and maxTokens are kept multiplied by TicksPerSecond, so that
\* elapsed * rate is a whole number; a time.Duration is a whole number of
\* ticks, and the conversion to it truncates as the one of the code does.
Rates == 1 .. MaxRate
TakeSizes == 1 .. MaxTake

NoBucket == [rate |-> 0, tokens |-> 0, maxTokens |-> 0, lastUpdate |-> 0]

NewTokenBucket(bytesPerSec, t) ==
    [rate |-> bytesPerSec, tokens |-> bytesPerSec * TicksPerSecond,
     maxTokens |-> bytesPerSec * TicksPerSecond, lastUpdate |-> t]

\* Take(n) on the bucket b at time t: the bucket afterwards and the wait
TakeAt(b, n, t) ==
    LET elapsed == t - b.lastUpdate
        filled == Min(b.tokens + elapsed * b.rate, b.maxTokens)
        needed == n * TicksPerSecond
    IN IF filled >= needed
       THEN [bucket |-> [b EXCEPT !.tokens = filled - needed,
                                  !.lastUpdate = t],
             wait |-> 0]
       ELSE [bucket |-> [b EXCEPT !.tokens = 0, !.lastUpdate = t],
             wait |-> (needed - filled) \div b.rate]

ChaosConfig(loss, bps, latency, jitter) ==
    [PacketLossPercent |-> loss, BandwidthBps |-> bps, Latency |-> latency,
     Jitter |-> jitter]
NoChaosConfig == ChaosConfig(0, 0, 0, 0)

NoTake == [n |-> 0, at |-> 0, wait |-> 0]
NoCall == [n |-> 0, dropped |-> FALSE, ret |-> 0, err |-> "", steps |-> <<>>]

PaceInit ==
    /\ cwcfg = NoChaosConfig
    /\ tb = NoBucket
    /\ tnow = 0
    /\ prevTake = NoTake
    /\ lastTake = NoTake
    /\ cwstats = ZeroStats
    /\ under = 0
    /\ wlast = NoCall

PaceFrame ==
    UNCHANGED <<dirVars, histVars, relayVars, tokenVars, benchVars,
                codecVars, chaosVars, retryVars, routeVars, lifeVars,
                heartbeatVars, sessionsVars, rejoinVars, grantVars>>

\* NewChaosWriterWithRng: the bucket exists when cfg.BandwidthBps > 0
NewChaosWriterWithRng(loss, bps, latency, jitter) ==
    /\ cwcfg = NoChaosConfig
    /\ tb = NoBucket
    /\ ChaosConfig(loss, bps, latency, jitter) # NoChaosConfig
    /\ cwcfg' = ChaosConfig(loss, bps, latency, jitter)
    /\ tb' = IF bps > 0 THEN NewTokenBucket(bps, tnow) ELSE NoBucket
    /\ UNCHANGED <<tnow, prevTake, lastTake, cwstats, under, wlast>>
    /\ PaceFrame

\* time passes
Sleep ==
    /\ tnow < MaxNow
    /\ tnow' = tnow + 1
    /\ UNCHANGED <<cwcfg, tb, prevTake, lastTake, cwstats, under, wlast>>
    /\ PaceFrame

\* a bucket of its own, without a writer
NewBucket(rate) ==
    /\ cwcfg = NoChaosConfig
    /\ tb = NoBucket
    /\ tb' = NewTokenBucket(rate, tnow)
    /\ UNCHANGED <<cwcfg, tnow, prevTake, lastTake, cwstats, under, wlast>>
    /\ PaceFrame

\* a caller of the bucket takes n tokens
TakeTokens(n) ==
    /\ tb # NoBucket
    /\ tb' = TakeAt(tb, n, tnow).bucket
    /\ prevTake' = lastTake
    /\ lastTake' = [n |-> n, at |-> tnow, wait |-> TakeAt(tb, n, tnow).wait]
    /\ UNCHANGED <<cwcfg, tnow, cwstats, under, wlast>>
    /\ PaceFrame

\* Write, step 1: the write is dropped when the draw falls below the loss
\* percentage
Dropped(c, roll) == c.PacketLossPercent > 0 /\ roll < c.PacketLossPercent
\* Write, step 2 is reached by the writes that were not dropped
PacedNoMatter(c, dropped) == c.BandwidthBps > 0
Paced(c, dropped) == ~dropped /\ c.BandwidthBps > 0
\* Write, step 3: latency and a jitter offset in -Jitter .. Jitter - 1
Delay(c, offset) ==
    IF c.Latency > 0 \/ c.Jitter > 0
    THEN IF c.Jitter > 0
         THEN IF c.Latency + offset < 0 THEN 0 ELSE c.Latency + offset
         ELSE c.Latency
    ELSE 0

\* Write(p) with len(p) = n by one caller: roll is the draw of the random
\* source, offset the jitter drawn, whole whether the underlying writer takes
\* all of p or fails with nothing written
Write(n, roll, offset, whole) ==
    LET dropped == Dropped(cwcfg, roll)
        paced == Paced(cwcfg, dropped)
        take == TakeAt(tb, n, tnow)
        wait == IF paced THEN take.wait ELSE 0
        delay == IF dropped THEN 0 ELSE Delay(cwcfg, offset)
        written == IF whole THEN n ELSE 0
    IN /\ cwcfg # NoChaosConfig
       /\ cwstats.TotalWrites < MaxPacedWrites
       /\ tnow + wait + delay <= MaxNow
       /\ tb' = IF paced THEN take.bucket ELSE tb
       /\ tnow' = tnow + wait + delay
       /\ under' = IF dropped THEN under ELSE under + 1
       /\ cwstats' = IF dropped
                     THEN [cwstats EXCEPT !.TotalWrites = @ + 1,
                                          !.TotalBytes = @ + n,
                                          !.DroppedWrites = @ + 1]
                     ELSE [cwstats EXCEPT !.TotalWrites = @ + 1,
                                          !.TotalBytes = @ + n,
                                          !.ActualBytes = @ + written]
       /\ wlast' = [n |-> n, dropped |-> dropped,
                    ret |-> IF dropped THEN n ELSE written,
                    err |-> IF dropped \/ whole THEN "" ELSE "write failed",
                    steps |-> (IF paced THEN <<"take">> ELSE <<>>)
                              \o (IF wait > 0 THEN <<"sleep">> ELSE <<>>)
                              \o (IF delay > 0 THEN <<"latency">> ELSE <<>>)
                              \o (IF dropped THEN <<>> ELSE <<"write">>)]
       /\ UNCHANGED <<cwcfg, prevTake, lastTake>>
       /\ PaceFrame

LossPercents == {0, 50}
Rolls == {25, 75}
Latencies == {0, 1}
Jitters == {0, 1}

BucketNext ==
    \/ \E rate \in Rates : NewBucket(rate)
    \/ Sleep
    \/ \E n \in TakeSizes : TakeTokens(n)

PaceNext ==
    \/ \E loss \in LossPercents : \E bps \in {0} \cup Rates :
           \E latency \in Latencies : \E jitter \in Jitters :
               NewChaosWriterWithRng(loss, bps, latency, jitter)
    \/ Sleep
    \/ \E n \in TakeSizes : \E roll \in Rolls : \E offset \in {-1, 0} :
           \E whole \in BOOLEAN : Write(n, roll, offset, whole)

(***************************************************************************)
(* Registration with retry (coord.Client.RegisterWithRetry; its source is  *)
(* not at hand: modelled from the design document, section 4.G, and the    *)
(* tests at client_test.go:133-277)                                        *)
(***************************************************************************)
RetryConfig(retries, initialBackoff, maxBackoff) ==
    [MaxRetries |-> retries, InitialBackoff |-> initialBackoff,
     MaxBackoff |-> maxBackoff]
NoRetryConfig == RetryConfig(0, 0, 0)
RetryConfigs ==
    {RetryConfig(m, 1, b) : m \in 1 .. LargestMaxRetries, b \in {1, 2, 4}}

\* what one register attempt comes to: the response, a 5xx, a network error,
\* or a 4xx
Outcomes == {"200", "503", "network", "401"}
Retryable(outcome) == outcome \in {"503", "network"}

NoReturn == [kind |-> "", attempts |-> 0]

RetryInit ==
    /\ rpc = "idle"
    /\ rcfg = NoRetryConfig
    /\ routcomes = <<>>
    /\ rbackoff = 0
    /\ rwaits = <<>>
    /\ rctx = FALSE
    /\ rcancelAt = -1
    /\ rret = NoReturn

RetryFrame ==
    UNCHANGED <<dirVars, histVars, relayVars, tokenVars, benchVars,
                codecVars, chaosVars, paceVars, routeVars, lifeVars,
                heartbeatVars, sessionsVars, rejoinVars, grantVars>>

\* RegisterWithRetry(ctx, ..., retryCfg) is called
RegisterWithRetry(cfg) ==
    /\ rpc = "idle"
    /\ rcfg' = cfg
    /\ rbackoff' = cfg.InitialBackoff
    /\ rpc' = "attempt"
    /\ UNCHANGED <<routcomes, rwaits, rctx, rcancelAt, rret>>
    /\ RetryFrame

\* ctx.Done() is observed
CtxNeverDone(ctx) == FALSE
CtxDone(ctx) == ctx
\* the attempts are used up
ExhaustedLate(attempts, cfg) == attempts > cfg.MaxRetries
Exhausted(attempts, cfg) == attempts >= cfg.MaxRetries

ReturnTo(kind) == [kind |-> kind, attempts |-> Len(routcomes)]

\* one register attempt and what follows from its outcome
Attempt(outcome) ==
    /\ rpc = "attempt"
    /\ ~CtxDone(rctx)
    /\ routcomes' = Append(routcomes, outcome)
    /\ IF outcome = "200"
       THEN rpc' = "done" /\ rret' = [kind |-> "ok", attempts |-> Len(routcomes')]
       ELSE IF ~Retryable(outcome)
       THEN rpc' = "done"
            /\ rret' = [kind |-> "rejected", attempts |-> Len(routcomes')]
       ELSE IF Exhausted(Len(routcomes'), rcfg)
       THEN rpc' = "done"
            /\ rret' = [kind |-> "after N attempts",
                        attempts |-> Len(routcomes')]
       ELSE rpc' = "backoff" /\ rret' = rret
    /\ UNCHANGED <<rcfg, rbackoff, rwaits, rctx, rcancelAt>>
    /\ RetryFrame

\* the backoff has passed; the next one is twice as long, up to MaxBackoff
BackoffElapsed ==
    /\ rpc = "backoff"
    /\ ~CtxDone(rctx)
    /\ rwaits' = Append(rwaits, rbackoff)
    /\ rbackoff' = Min(2 * rbackoff, rcfg.MaxBackoff)
    /\ rpc' = "attempt"
    /\ UNCHANGED <<rcfg, routcomes, rctx, rcancelAt, rret>>
    /\ RetryFrame

\* the cancellation is seen before an attempt or in the backoff
ReturnCancelled ==
    /\ rpc \in {"attempt", "backoff"}
    /\ CtxDone(rctx)
    /\ rpc' = "done"
    /\ rret' = ReturnTo("cancelled")
    /\ UNCHANGED <<rcfg, routcomes, rbackoff, rwaits, rctx, rcancelAt>>
    /\ RetryFrame

\* the caller cancels ctx
CancelCtx ==
    /\ ~rctx
    /\ rctx' = TRUE
    /\ rcancelAt' = IF rpc = "done" THEN -1 ELSE Len(routcomes)
    /\ UNCHANGED <<rpc, rcfg, routcomes, rbackoff, rwaits, rret>>
    /\ RetryFrame

RetryNext ==
    \/ \E cfg \in RetryConfigs : RegisterWithRetry(cfg)
    \/ \E outcome \in Outcomes : Attempt(outcome)
    \/ BackoffElapsed
    \/ ReturnCancelled
    \/ CancelCtx

(***************************************************************************)
(* Peer route lookup (MeshNode.ensurePeerRoute, internal/peer/ssh.go)      *)
(***************************************************************************)
maxRetries == 5
\* the first backoff, in milliseconds
FirstBackoff == 500

RouteNames == {"alice", "bob"}
Peer(name, ip, key) == [Name |-> name, MeshIP |-> ip, PublicKey |-> key]
\* what ListPeers returns: an error, or a list of peers
PeerLists ==
    {{}, {Peer("alice", "10.99.0.1", "key")}, {Peer("bob", "10.99.0.2", "")},
     {Peer("alice", "10.99.0.3", ""), Peer("bob", "10.99.0.2", "")}}
Listing(err, list) == [err |-> err, peers |-> list]
Listed(list, name) == \E q \in list : q.Name = name
Entry(list, name) == CHOOSE q \in list : q.Name = name

RouteInit ==
    /\ epc = "idle"
    /\ ename = ""
    /\ attempt = 0
    /\ backoff = 0
    /\ lastErr = FALSE
    /\ listings = <<>>
    /\ waits = <<>>
    /\ cache = [n \in RouteNames |-> ""]
    /\ routes = {}
    /\ authorized = {}
    /\ eret = ""

RouteFrame ==
    UNCHANGED <<dirVars, histVars, relayVars, tokenVars, benchVars,
                codecVars, chaosVars, paceVars, retryVars, lifeVars,
                heartbeatVars, sessionsVars, rejoinVars, grantVars>>

\* m.router.AddRoute(meshIP, peerName)
AddRouteNothing(rs, ip, name) == rs

AddRoute(rs, ip, name) == rs \cup {<<ip, name>>}

FromCacheNever(name) == routes' = routes /\ eret' = ""

\* the end of ensurePeerRoute: the route comes from the cache, or there is
\* none
FromCache(name) ==
    IF cache[name] # ""
    THEN /\ routes' = AddRoute(routes, cache[name], name)
         /\ eret' = cache[name]
    ELSE /\ routes' = routes
         /\ eret' = ""

\* ensurePeerRoute(peerName) is called; without a client only the cache is
\* asked
EnsurePeerRoute(name, client) ==
    /\ epc \in {"idle", "done"}
    /\ ename' = name
    /\ listings' = <<>>
    /\ waits' = <<>>
    /\ lastErr' = FALSE
    /\ IF client
       THEN /\ epc' = "ask"
            /\ attempt' = 1
            /\ backoff' = FirstBackoff
            /\ UNCHANGED <<routes, eret>>
       ELSE /\ epc' = "done"
            /\ UNCHANGED <<attempt, backoff>>
            /\ FromCache(name)
    /\ UNCHANGED <<cache, authorized>>
    /\ RouteFrame

NextBackoffSame(b) == b
NextBackoff(b) == b * 2

\* ListPeers fails: sleep and double the backoff unless this was the last
\* attempt, then go on with the loop; after the last attempt the cache
ListPeersFails ==
    /\ epc = "ask"
    /\ listings' = Append(listings, Listing(TRUE, {}))
    /\ lastErr' = TRUE
    /\ IF attempt < maxRetries
       THEN /\ waits' = Append(waits, backoff)
            /\ backoff' = NextBackoff(backoff)
       ELSE UNCHANGED <<waits, backoff>>
    /\ attempt' = attempt + 1
    /\ IF attempt' <= maxRetries
       THEN epc' = "ask" /\ UNCHANGED <<routes, eret>>
       ELSE epc' = "done" /\ FromCache(ename)
    /\ UNCHANGED <<ename, cache, authorized>>
    /\ RouteFrame

\* the loop after a list without the peer: break
AfterMissingContinue(a) == a + 1
AfterMissing(a) == maxRetries + 1

\* ListPeers returns a list: with the peer in it the route is added and
\* cached and the key authorized; without it the loop is left for the cache
ListPeersReturns(list) ==
    /\ epc = "ask"
    /\ listings' = Append(listings, Listing(FALSE, list))
    /\ IF Listed(list, ename)
       THEN LET q == Entry(list, ename)
            IN /\ routes' = AddRoute(routes, q.MeshIP, q.Name)
               /\ cache' = [cache EXCEPT ![q.Name] = q.MeshIP]
               /\ authorized' = IF q.PublicKey # ""
                                THEN authorized \cup {q.PublicKey}
                                ELSE authorized
               /\ eret' = q.MeshIP
               /\ epc' = "done"
               /\ UNCHANGED attempt
       ELSE /\ attempt' = AfterMissing(attempt)
            /\ IF attempt' <= maxRetries
               THEN epc' = "ask" /\ UNCHANGED <<routes, eret>>
               ELSE epc' = "done" /\ FromCache(ename)
            /\ UNCHANGED <<cache, authorized>>
    /\ UNCHANGED <<ename, backoff, lastErr, waits>>
    /\ RouteFrame

RouteNext ==
    \/ \E name \in RouteNames : \E client \in BOOLEAN :
           EnsurePeerRoute(name, client)
    \/ ListPeersFails
    \/ \E list \in PeerLists : ListPeersReturns(list)

(***************************************************************************)
(* Connection lifecycle and UDP session invalidation.  The handler of the  *)
(* session-invalid callback is src/unnamed/part_005:27-47; the connection  *)
(* state machine, the LifecycleManager and TriggerDiscovery are not at     *)
(* hand and are modelled from the design document, section 4.J.            *)
(***************************************************************************)
LifePeers == {"alice", "bob"}
LifeStates ==
    {"Idle", "Dialing", "Authenticating", "Established", "Rekeying", "Failed",
     "Closing"}

LifeInit ==
    /\ lstate = [p \in LifePeers |-> "Idle"]
    /\ lconns = {}
    /\ tunnels = {}
    /\ lreason = [p \in LifePeers |-> ""]
    /\ pending = FALSE
    /\ askedBy = {}
    /\ signals = [p \in LifePeers |-> 0]
    /\ reconnects = [p \in LifePeers |-> 0]
    /\ cutTunnel = {}

LifeFrame ==
    UNCHANGED <<dirVars, histVars, relayVars, tokenVars, benchVars,
                codecVars, chaosVars, paceVars, retryVars, routeVars,
                heartbeatVars, sessionsVars, rejoinVars, grantVars>>

\* the LifecycleManager observes the transition of p into the state to: on
\* Established it installs the tunnel in the router, on Closing it removes it
ObservedKeeping(routed, p, to) ==
    IF to = "Established" THEN routed \cup {p} ELSE routed
Observed(routed, p, to) ==
    IF to = "Established" THEN routed \cup {p}
    ELSE IF to = "Closing" THEN routed \ {p}
    ELSE routed

\* the connection of p goes into the state to
Transition(p, to) ==
    /\ lstate' = [lstate EXCEPT ![p] = to]
    /\ tunnels' = Observed(tunnels, p, to)

\* pc.Disconnect(reason, nil): any state -> Closing
DisconnectWith(p, reason) ==
    /\ Transition(p, "Closing")
    /\ lreason' = [lreason EXCEPT ![p] = reason]

Dial(p) ==
    /\ lstate[p] = "Idle"
    /\ Transition(p, "Dialing")
    /\ lconns' = lconns \cup {p}
    /\ UNCHANGED <<lreason, pending, askedBy, signals, reconnects, cutTunnel>>
    /\ LifeFrame

Dialed(p) ==
    /\ lstate[p] = "Dialing"
    /\ Transition(p, "Authenticating")
    /\ UNCHANGED <<lconns, lreason, pending, askedBy, signals, reconnects, cutTunnel>>
    /\ LifeFrame

\* the session of p is established: what was counted for the session
\* before it is over
Authenticated(p) ==
    /\ lstate[p] = "Authenticating"
    /\ Transition(p, "Established")
    /\ signals' = [signals EXCEPT ![p] = 0]
    /\ reconnects' = [reconnects EXCEPT ![p] = 0]
    /\ askedBy' = askedBy \ {p}
    /\ UNCHANGED <<lconns, lreason, pending, cutTunnel>>
    /\ LifeFrame

Rekey(p) ==
    /\ lstate[p] = "Established"
    /\ Transition(p, "Rekeying")
    /\ UNCHANGED <<lconns, lreason, pending, askedBy, signals, reconnects, cutTunnel>>
    /\ LifeFrame

Rekeyed(p) ==
    /\ lstate[p] = "Rekeying"
    /\ Transition(p, "Established")
    /\ UNCHANGED <<lconns, lreason, pending, askedBy, signals, reconnects, cutTunnel>>
    /\ LifeFrame

\* an unrecoverable error before the session stands: a dial that cannot
\* succeed, or an authentication failure
Fail(p) ==
    /\ lstate[p] \in {"Dialing", "Authenticating"}
    /\ Transition(p, "Failed")
    /\ UNCHANGED <<lconns, lreason, pending, askedBy, signals, reconnects, cutTunnel>>
    /\ LifeFrame

\* a disconnect for any other reason, in any state
Disconnect(p, reason) ==
    /\ p \in lconns
    /\ lstate[p] # "Closing"
    /\ DisconnectWith(p, reason)
    /\ UNCHANGED <<lconns, pending, askedBy, signals, reconnects, cutTunnel>>
    /\ LifeFrame

\* Closing -> Idle; the connection is gone
Closed(p) ==
    /\ lstate[p] = "Closing"
    /\ Transition(p, "Idle")
    /\ lconns' = lconns \ {p}
    /\ UNCHANGED <<lreason, pending, askedBy, signals, reconnects, cutTunnel>>
    /\ LifeFrame

OtherReason == "transport error"
FinalReason == "final"
SessionInvalidReason == "session invalidated by peer"

\* HandleUDPSessionInvalidated(peerName): disconnect the connection if there
\* is one, then TriggerDiscovery, which leaves one trigger for the discovery
\* loop however often it is called before the loop runs
HandleUDPSessionInvalidated(p) ==
    /\ signals[p] < MaxSignals
    /\ signals' = [signals EXCEPT ![p] = @ + 1]
    /\ IF p \in lconns
       THEN DisconnectWith(p, SessionInvalidReason)
       ELSE UNCHANGED <<lstate, tunnels, lreason>>
    /\ pending' = TRUE
    /\ askedBy' = askedBy \cup {p}
    /\ cutTunnel' = IF p \in tunnels THEN cutTunnel \cup {p}
                    ELSE cutTunnel \ {p}
    /\ UNCHANGED <<lconns, reconnects>>
    /\ LifeFrame

\* the discovery loop takes the trigger and runs one discovery, which
\* reconnects the peers without a session
RunDiscovery ==
    /\ pending
    /\ pending' = FALSE
    /\ askedBy' = {}
    /\ reconnects' = [p \in LifePeers |->
                         IF p \in askedBy THEN reconnects[p] + 1
                         ELSE reconnects[p]]
    /\ UNCHANGED <<lstate, lconns, tunnels, lreason, signals, cutTunnel>>
    /\ LifeFrame

LifeNext ==
    \/ \E p \in LifePeers : Dial(p)
    \/ \E p \in LifePeers : Dialed(p)
    \/ \E p \in LifePeers : Authenticated(p)
    \/ \E p \in LifePeers : Rekey(p)
    \/ \E p \in LifePeers : Rekeyed(p)
    \/ \E p \in LifePeers : Fail(p)
    \/ \E p \in LifePeers : Disconnect(p, OtherReason)
    \/ \E p \in LifePeers : Closed(p)
    \/ \E p \in LifePeers : HandleUDPSessionInvalidated(p)
    \/ RunDiscovery

(***************************************************************************)
(* Heartbeat loop (heartbeatLoop, src/unnamed/part_003:362-384)            *)
(***************************************************************************)
HeartbeatInit ==
    /\ hpc = "select"
    /\ hctx = FALSE
    /\ tick = FALSE
    /\ beats = 0
    /\ hfails = 0
    /\ hsyncs = 0

HeartbeatFrame ==
    UNCHANGED <<dirVars, histVars, relayVars, tokenVars, benchVars,
                codecVars, chaosVars, paceVars, retryVars, routeVars,
                lifeVars, sessionsVars, rejoinVars, grantVars>>

\* 30 s have passed: the ticker puts a tick into its channel, which holds
\* one; the ticker is stopped when the loop returns
TickerFires ==
    /\ hpc # "exited"
    /\ ~tick
    /\ beats < MaxBeats
    /\ tick' = TRUE
    /\ UNCHANGED <<hpc, hctx, beats, hfails, hsyncs>>
    /\ HeartbeatFrame

\* where the loop goes after a failed heartbeat: continue
AfterFailureReturn == "exited"
AfterFailure == "select"

\* case <-ticker.C: one heartbeat; after a failure the loop goes on, after a
\* success the DNS records are synced when there is a resolver
HeartbeatOnTick(ok, resolver) ==
    /\ hpc = "select"
    /\ tick
    /\ tick' = FALSE
    /\ beats' = beats + 1
    /\ IF ok
       THEN /\ hpc' = "select"
            /\ hsyncs' = IF resolver THEN hsyncs + 1 ELSE hsyncs
            /\ UNCHANGED hfails
       ELSE /\ hpc' = AfterFailure
            /\ hfails' = hfails + 1
            /\ UNCHANGED hsyncs
    /\ UNCHANGED hctx
    /\ HeartbeatFrame

\* case <-ctx.Done(): return
ExitOnCancel ==
    /\ hpc = "select"
    /\ hctx
    /\ hpc' = "exited"
    /\ UNCHANGED <<hctx, tick, beats, hfails, hsyncs>>
    /\ HeartbeatFrame

\* the context of the loop is cancelled
CancelHeartbeat ==
    /\ ~hctx
    /\ hctx' = TRUE
    /\ UNCHANGED <<hpc, tick, beats, hfails, hsyncs>>
    /\ HeartbeatFrame

HeartbeatNext ==
    \/ TickerFires
    \/ \E ok \in BOOLEAN : \E resolver \in BOOLEAN : HeartbeatOnTick(ok, resolver)
    \/ ExitOnCancel
    \/ CancelHeartbeat

\* the goroutine of the loop runs when a case of its select is ready
HeartbeatFairness ==
    /\ WF_vars(ExitOnCancel)
    /\ WF_vars(\E ok \in BOOLEAN : \E resolver \in BOOLEAN :
                   HeartbeatOnTick(ok, resolver))

(***************************************************************************)
(* The directory with the relay sessions of its peers and the last request *)
(***************************************************************************)
MissingBearer == ""
RequestBearers == Bearers \cup {MissingBearer}
RequestKey == "SHA256:key"
DomainSuffix == ".mesh"

\* a request, with what the directory held for its name when it arrived
NoRequest ==
    [op |-> "none", name |-> "", bearer |-> "", known |-> FALSE,
     session |-> FALSE]
Request(op, name, bearer) ==
    [op |-> op, name |-> name, bearer |-> bearer,
     known |-> name \in DOMAIN peers, session |-> name \in sessions]

\* GET /api/v1/peers: the names listed
ListPeers(ps) == DOMAIN ps

\* GET /api/v1/dns: hostname = name + domain_suffix
ListDNS(ps) ==
    {[hostname |-> <<n, DomainSuffix>>, mesh_ip |-> ps[n].mesh_ip] :
        n \in DOMAIN ps}

\* a register answered 200 carries the token emitted for the peer
IssuesToken(r) == r.status = "ok" /\ r.mesh_ip # NoIP

SessionsInit ==
    /\ req = NoRequest
    /\ sessions = {}

DirSessionsFrame ==
    UNCHANGED <<histVars, relayVars, tokenVars, benchVars, codecVars,
                chaosVars, paceVars, retryVars, routeVars, lifeVars,
                heartbeatVars, rejoinVars, grantVars>>

ReqRegister(n, k, b) ==
    /\ Register(n, k, b)
    /\ req' = Request("register", n, b)
    /\ UNCHANGED sessions
    /\ DirSessionsFrame

ReqHeartbeat(n, k, b) ==
    /\ Heartbeat(n, k, b)
    /\ req' = Request("heartbeat", n, b)
    /\ UNCHANGED sessions
    /\ DirSessionsFrame

\* deregister removes the relay session of the peer, if any
KeepSession(ss, name) == ss

DropSession(ss, name) == ss \ {name}

ReqDeregister(n, b) ==
    /\ Deregister(n, b)
    /\ req' = Request("deregister", n, b)
    /\ sessions' = IF Authorized(b) THEN DropSession(sessions, n) ELSE sessions
    /\ DirSessionsFrame

ReqTick ==
    /\ Tick
    /\ UNCHANGED <<req, sessions>>
    /\ DirSessionsFrame

\* a peer that joined opens its relay session: sessions[name] = conn
OpenSession(n) ==
    /\ n \in DOMAIN peers
    /\ n \notin sessions
    /\ sessions' = sessions \cup {n}
    /\ UNCHANGED <<dirVars, req>>
    /\ DirSessionsFrame

\* the peer closes its relay session
CloseSession(n) ==
    /\ n \in sessions
    /\ sessions' = sessions \ {n}
    /\ UNCHANGED <<dirVars, req>>
    /\ DirSessionsFrame

\* the peers that make requests
SessionNames == {"alice", "bob"}

SessionsNext ==
    \/ \E n \in SessionNames, b \in RequestBearers :
           ReqRegister(n, RequestKey, b)
    \/ \E n \in SessionNames, b \in RequestBearers :
           ReqHeartbeat(n, RequestKey, b)
    \/ \E n \in SessionNames, b \in RequestBearers : ReqDeregister(n, b)
    \/ ReqTick
    \/ \E n \in SessionNames : OpenSession(n)
    \/ \E n \in SessionNames : CloseSession(n)

(***************************************************************************)
(* Peers that join the mesh (runJoin, heartbeatLoop) and a coordinator     *)
(* that can restart with an empty directory                                *)
(***************************************************************************)
Joiners == {"alice", "bob"}
JoinKey == "SHA256:key"

RejoinInit ==
    /\ jpc = [n \in Joiners |-> "start"]
    /\ jlast = [n \in Joiners |-> "none"]
    /\ restarts = 0

RejoinRestFrame ==
    UNCHANGED <<histVars, relayVars, tokenVars, benchVars, codecVars,
                chaosVars, paceVars, retryVars, routeVars, lifeVars,
                heartbeatVars, sessionsVars, grantVars>>

\* a request that does not reach the coordinator
Unreachable == UNCHANGED dirVars

\* runJoin: client.Register; on an error the command returns, otherwise the
\* heartbeat loop is started
RunJoin(n, up) ==
    /\ jpc[n] = "start"
    /\ IF up
       THEN /\ Register(n, JoinKey, AuthToken)
            /\ jpc' = [jpc EXCEPT ![n] = IF resp'.status = "ok" THEN "running"
                                         ELSE "returned"]
       ELSE /\ Unreachable
            /\ jpc' = [jpc EXCEPT ![n] = "returned"]
    /\ UNCHANGED <<jlast, restarts>>
    /\ RejoinRestFrame

\* heartbeatLoop, case <-ticker.C: client.Heartbeat; a failure is logged and
\* the loop goes on
HeartbeatTick(n, up) ==
    /\ jpc[n] = "running"
    /\ IF up
       THEN /\ Heartbeat(n, JoinKey, AuthToken)
            /\ jlast' = [jlast EXCEPT ![n] = resp'.status]
       ELSE /\ Unreachable
            /\ jlast' = [jlast EXCEPT ![n] = "network"]
    /\ UNCHANGED <<jpc, restarts>>
    /\ RejoinRestFrame

\* runJoin after the shutdown signal: client.Deregister, then return, which
\* cancels the context of the heartbeat loop
Shutdown(n, up) ==
    /\ jpc[n] = "running"
    /\ IF up THEN Deregister(n, AuthToken) ELSE Unreachable
    /\ jpc' = [jpc EXCEPT ![n] = "stopped"]
    /\ UNCHANGED <<jlast, restarts>>
    /\ RejoinRestFrame

\* the coordinator restarts: nothing of the directory is stored
CoordinatorRestart ==
    /\ restarts < MaxRestarts
    /\ restarts' = restarts + 1
    /\ peers' = <<>>
    /\ resp' = NoResp
    /\ UNCHANGED <<hashOf, now, jpc, jlast>>
    /\ RejoinRestFrame

RejoinNext ==
    \/ \E n \in Joiners, up \in BOOLEAN : RunJoin(n, up)
    \/ \E n \in Joiners, up \in BOOLEAN : HeartbeatTick(n, up)
    \/ \E n \in Joiners, up \in BOOLEAN : Shutdown(n, up)
    \/ CoordinatorRestart

\* the ticker of every running peer keeps firing, and its heartbeats keep
\* reaching the coordinator
RejoinFairness ==
    \A n \in Joiners : WF_vars(HeartbeatTick(n, TRUE))

(***************************************************************************)
(* A caller that sleeps every wait of the token bucket before it writes    *)
(* (TokenBucket.Take and ChaosWriter.Write, step 2, src/unnamed/part_006)  *)
(***************************************************************************)
GrantInit == granted = <<>>

GrantFrame ==
    UNCHANGED <<dirVars, histVars, relayVars, tokenVars, benchVars,
                codecVars, chaosVars, retryVars, routeVars, lifeVars,
                heartbeatVars, sessionsVars, rejoinVars>>

\* the bytes of the grants i .. j
RECURSIVE GrantedBytes(_, _, _)
GrantedBytes(gs, i, j) ==
    IF i > j THEN 0 ELSE gs[i].n + GrantedBytes(gs, i + 1, j)

\* Write, step 2: wait := bucket.Take(len(p)); if wait > 0, time.Sleep(wait);
\* the n bytes then go to the underlying writer
PacedTake(n) ==
    LET take == TakeAt(tb, n, tnow)
    IN /\ tb # NoBucket
       /\ Len(granted) < MaxGrants
       /\ tnow + take.wait <= MaxNow
       /\ tb' = take.bucket
       /\ tnow' = tnow + take.wait
       /\ granted' = Append(granted, [n |-> n, asked |-> tnow,
                                       at |-> tnow + take.wait])
       /\ UNCHANGED <<cwcfg, prevTake, lastTake, cwstats, under, wlast>>
       /\ GrantFrame

GrantNext ==
    \/ \E rate \in Rates : NewBucket(rate)
    \/ Sleep
    \/ \E n \in TakeSizes : PacedTake(n)

\* initial state of the components outside the directory and the relay hub
ExtInit ==
    /\ TokenInit
    /\ BenchInit
    /\ CodecInit
    /\ ChaosInit
    /\ PaceInit
    /\ RetryInit
    /\ RouteInit
    /\ LifeInit
    /\ HeartbeatInit
    /\ SessionsInit
    /\ RejoinInit
    /\ GrantInit

(***************************************************************************)
(* Specifications                                                          *)
(***************************************************************************)
\* The history variables observe the registrations: a successful register of
\* `name` returned peers'[name].mesh_ip.
RegisteredOk(name) == resp'.status = "ok" /\ name \in DOMAIN peers'

ObserveRegister(name) ==
    IF RegisteredOk(name)
    THEN /\ firstIP' = [firstIP EXCEPT
                          ![name] = IF @ = NoIP THEN peers'[name].mesh_ip ELSE @]
         /\ stableIP' = [n \in Names |->
                           IF n # name THEN NoIP
                           ELSE IF stableIP[n] = NoIP THEN peers'[n].mesh_ip
                           ELSE stableIP[n]]
    ELSE UNCHANGED histVars

DirRegister(n, k, b) == Register(n, k, b) /\ UNCHANGED <<histVars, relayVars, extVars>>
DirHeartbeat(n, k, b) == Heartbeat(n, k, b) /\ UNCHANGED <<histVars, relayVars, extVars>>
DirDeregister(n, b) == Deregister(n, b) /\ UNCHANGED <<histVars, relayVars, extVars>>
DirTick == Tick /\ UNCHANGED <<histVars, relayVars, extVars>>

DirNext ==
    \/ \E n \in Names, k \in Keys, b \in Bearers : DirRegister(n, k, b)
    \/ \E n \in Names, k \in Keys, b \in Bearers : DirHeartbeat(n, k, b)
    \/ \E n \in Names, b \in Bearers : DirDeregister(n, b)
    \/ DirTick

HistRegister(n, k, b) ==
    Register(n, k, b) /\ ObserveRegister(n)
    /\ UNCHANGED <<relayVars, extVars>>
HistHeartbeat(n, k, b) == Heartbeat(n, k, b) /\ UNCHANGED <<histVars, relayVars, extVars>>
HistDeregister(n, b) == Deregister(n, b) /\ UNCHANGED <<histVars, relayVars, extVars>>
HistTick == Tick /\ UNCHANGED <<histVars, relayVars, extVars>>

HistNext ==
    \/ \E n \in Names, k \in Keys, b \in Bearers : HistRegister(n, k, b)
    \/ \E n \in Names, k \in Keys, b \in Bearers : HistHeartbeat(n, k, b)
    \/ \E n \in Names, b \in Bearers : HistDeregister(n, b)
    \/ HistTick

\* the directory alone: no relay connection is opened
InitDirectory == DirInit /\ RelayInit /\ ExtInit

SpecDirectory == InitDirectory /\ [][DirNext]_vars

SpecDirectoryHistory == InitDirectory /\ [][HistNext]_vars

\* the directory with all names hashing to one slot, so that every allocation
\* after the first one probes; a register of a registered name does not
\* consult the hash
InitColliding == DirInit /\ hashOf = [n \in Names |-> 0] /\ RelayInit /\ ExtInit

SpecDirectoryColliding == InitColliding /\ [][DirNext]_vars

\* the hub alone: the directory keeps its initial state
InitRelay == DirInit /\ hashOf = [n \in Names |-> 0] /\ RelayInit /\ ExtInit

SpecRelay == InitRelay /\ [][RelayNext]_vars

\* the token authority alone
InitToken == DirInit /\ hashOf = [n \in Names |-> 0] /\ RelayInit /\ ExtInit

SpecToken == InitToken /\ [][TokenNext]_vars

\* one benchmark run
InitBenchmark == DirInit /\ hashOf = [n \in Names |-> 0] /\ RelayInit /\ ExtInit

SpecBenchmark == InitBenchmark /\ [][BenchNext]_vars

\* one benchmark run against a server that ends its upload loop with the
\* client's Complete, or one that also ends it with the announced size
InitBenchServers ==
    DirInit /\ hashOf = [n \in Names |-> 0] /\ RelayInit /\ ExtInit

SpecBenchServers == InitBenchServers /\ [][BenchServersNext]_vars

\* the protocol codec alone
InitCodec == DirInit /\ hashOf = [n \in Names |-> 0] /\ RelayInit /\ ExtInit

SpecCodec == InitCodec /\ [][CodecNext]_vars

\* one chaos writer and its callers
InitChaos == DirInit /\ hashOf = [n \in Names |-> 0] /\ RelayInit /\ ExtInit

SpecChaos == InitChaos /\ [][ChaosNext]_vars

\* the token bucket and one caller of a chaos writer
InitPace == DirInit /\ hashOf = [n \in Names |-> 0] /\ RelayInit /\ ExtInit

SpecPace == InitPace /\ [][PaceNext]_vars

\* a token bucket and its callers
InitBucket == DirInit /\ hashOf = [n \in Names |-> 0] /\ RelayInit /\ ExtInit

SpecBucket == InitBucket /\ [][BucketNext]_vars

\* one call of RegisterWithRetry
InitRetry == DirInit /\ hashOf = [n \in Names |-> 0] /\ RelayInit /\ ExtInit

SpecRetry == InitRetry /\ [][RetryNext]_vars

\* route lookups of one node
InitRoute == DirInit /\ hashOf = [n \in Names |-> 0] /\ RelayInit /\ ExtInit

SpecRoute == InitRoute /\ [][RouteNext]_vars

\* the connections of one node
InitLife == DirInit /\ hashOf = [n \in Names |-> 0] /\ RelayInit /\ ExtInit

SpecLife == InitLife /\ [][LifeNext]_vars

\* the heartbeat loop
InitHeartbeat == DirInit /\ hashOf = [n \in Names |-> 0] /\ RelayInit /\ ExtInit

SpecHeartbeat ==
    InitHeartbeat /\ [][HeartbeatNext]_vars /\ HeartbeatFairness

\* the directory, the relay sessions of its peers and its last request
InitSessions == DirInit /\ hashOf = [n \in Names |-> 0] /\ RelayInit /\ ExtInit

SpecSessions == InitSessions /\ [][SessionsNext]_vars

\* peers that joined, and a coordinator that restarts
InitRejoin == DirInit /\ hashOf = [n \in Names |-> 0] /\ RelayInit /\ ExtInit

SpecRejoin == InitRejoin /\ [][RejoinNext]_vars /\ RejoinFairness

\* the token bucket and a caller that sleeps every wait
InitGrant == DirInit /\ hashOf = [n \in Names |-> 0] /\ RelayInit /\ ExtInit

SpecGrant == InitGrant /\ [][GrantNext]_vars

\* the token authority and peers that build tokens themselves
InitForge == DirInit /\ hashOf = [n \in Names |-> 0] /\ RelayInit /\ ExtInit

SpecForge == InitForge /\ [][ForgeNext]_vars

(***************************************************************************)
(* Directory: claims                                                       *)
(***************************************************************************)
\* C1: in every reachable state of the directory the mesh_ip values of the
\* registered peers are pairwise distinct and each lies inside mesh_cidr.
C1_DistinctInsideCidr ==
    \A n \in DOMAIN peers :
        /\ InCidr(peers[n].mesh_ip)
        /\ \A m \in DOMAIN peers : m # n => peers[m].mesh_ip # peers[n].mesh_ip

\* two registered peers whose names hash to the same slot
C1_Witness ==
    \E n \in DOMAIN peers, m \in DOMAIN peers :
        /\ n # m
        /\ hashOf[n] % RangeSize = hashOf[m] % RangeSize

\* C2: a register of a name that is already registered is an update: the name
\* keeps its one record with the mesh_ip and registered_at of its first
\* registration, and a successful call returns that mesh_ip; no step changes
\* the mesh_ip or registered_at of a peer that stays registered.
C2_ReRegisterIsUpdate ==
    [][/\ \A n \in DOMAIN peers \cap DOMAIN peers' :
             /\ peers'[n].mesh_ip = peers[n].mesh_ip
             /\ peers'[n].registered_at = peers[n].registered_at
       /\ \A n \in DOMAIN peers, k \in Keys, b \in Bearers :
             Register(n, k, b) =>
                 /\ DOMAIN peers' = DOMAIN peers
                 /\ resp'.status = "ok" => resp'.mesh_ip = peers[n].mesh_ip
                 /\ resp'.status = "ok" => peers'[n].last_seen = now]_vars

\* the last request was a register of n that updated n's record at a later
\* time than its first registration
C2_Witness ==
    \E n \in DOMAIN peers :
        /\ resp = [status |-> "ok", mesh_ip |-> peers[n].mesh_ip]
        /\ peers[n].last_seen > peers[n].registered_at

\* C3: over the lifetime of the directory every successful register of a name
\* returns the mesh_ip of that name's first registration.
C3_SameIPForLifetime ==
    \A n \in DOMAIN peers : peers[n].mesh_ip = firstIP[n]

\* C4: a name registered, deregistered and registered again with no register
\* of any other name in between gets the same mesh_ip again.
C4_ReRegisterSameIP ==
    \A n \in DOMAIN peers :
        stableIP[n] # NoIP => peers[n].mesh_ip = stableIP[n]

(***************************************************************************)
(* Relay hub: claims                                                       *)
(***************************************************************************)
Live(c) == pc[c] \in {"read", "write"}

\* connections of a name, and the one that connected last
ConnsOf(n) == {c \in Conns : peerName[c] = n}
Latest(n) == CHOOSE c \in ConnsOf(n) : \A d \in ConnsOf(n) : d <= c

\* the name has a second connection, and that connection is open
Replaced(n) == Cardinality(ConnsOf(n)) > 1 /\ Live(Latest(n))

\* the hub's recv message, as the peer parses it
SourceOf(m) == SubSeq(m, 3, 2 + m[2])
PayloadOf(m) == SubSeq(m, 3 + m[2], Len(m))

\* the step accepts a SendPacket frame: it is appended to m.received
Accepts == Len(received') = Len(received) + 1
Accepted == received'[Len(received')]

RECURSIVE IsSubSeq(_, _)
IsSubSeq(a, b) ==
    IF a = <<>> THEN TRUE
    ELSE IF b = <<>> THEN FALSE
    ELSE IF Head(a) = Head(b) THEN IsSubSeq(Tail(a), Tail(b))
    ELSE IsSubSeq(a, Tail(b))

RECURSIVE Select(_, _, _)
Select(log, src, tgt) ==
    IF log = <<>> THEN <<>>
    ELSE IF Head(log).source = src /\ Head(log).target = tgt
         THEN <<Head(log).data>> \o Select(Tail(log), src, tgt)
         ELSE Select(Tail(log), src, tgt)

RECURSIVE DeliveredFrom(_, _)
DeliveredFrom(msgs, src) ==
    IF msgs = <<>> THEN <<>>
    ELSE IF SourceOf(Head(msgs)) = src
         THEN <<PayloadOf(Head(msgs))>> \o DeliveredFrom(Tail(msgs), src)
         ELSE DeliveredFrom(Tail(msgs), src)

\* C5: the hub holds at most one live session per name: once a newer connection
\* has authenticated under a name, every older connection of that name has
\* been closed by the hub.
C5_OldSessionClosed ==
    \A c \in Conns, d \in Conns :
        (c < d /\ peerName[c] # NoBearer /\ peerName[c] = peerName[d])
            => pc[c] = "closed"

\* C6: a closing session removes only its own entry of the session map: an
\* entry that refers to another connection stays as it is.
C6_CloseKeepsReplacement ==
    [][\A c \in Conns :
          (Live(c) /\ pc'[c] = "closed") =>
              \A n \in DOMAIN connections :
                  connections[n] # c =>
                      /\ n \in DOMAIN connections'
                      /\ connections'[n] = connections[n]]_vars

\* C7: every recv message written to a session is the recv message of a frame
\* the hub accepted: its source is the authenticated name of the sending
\* session, its payload the payload of that frame, and the session it is
\* written to is the one of the frame's target name.
C7_DeliveredAsSent ==
    \A r \in Conns : \A i \in 1 .. Len(wire[r]) :
        \E j \in 1 .. Len(received) :
            /\ wire[r][i] = RecvMessage(received[j].source, received[j].data)
            /\ received[j].target = peerName[r]

\* C8: once a name has a second connection, and while that connection is
\* open, every frame the hub accepts for the name is handed to the write on
\* the new connection.
C8_FramesGoToNewSession ==
    [][(Accepts /\ Accepted.target \in PeerNames /\ Replaced(Accepted.target))
          => \E c \in Conns :
                /\ pc[c] = "read" /\ pc'[c] = "write"
                /\ cur'[c].targetConn = Latest(Accepted.target)]_vars

\* C9: while the session of R is the registered one and open, the payloads
\* written to it with source S are, in order and without repetition, payloads
\* of frames the one session of S sent to R.
C9_InOrderNoDuplicates ==
    \A r \in Conns, s \in Conns :
        (/\ Live(r) /\ Live(s)
         /\ ConnsOf(peerName[r]) = {r}
         /\ ConnsOf(peerName[s]) = {s})
            => IsSubSeq(DeliveredFrom(wire[r], peerName[s]),
                        Select(received, peerName[s], peerName[r]))

\* C10: a SendPacket frame whose target has no session is dropped silently:
\* the step that accepts it writes to no session, closes no session and
\* leaves the session map as it is.
C10_AbsentTargetDropped ==
    [][(Accepts /\ Accepted.target \notin DOMAIN connections)
          => /\ wire' = wire
             /\ pc' = pc
             /\ cur' = cur
             /\ connections' = connections]_vars

\* a frame for a name that never connected was accepted; nothing was written
\* and the sender's session goes on reading
C10_Witness ==
    \E j \in 1 .. Len(received) :
        /\ received[j].target \notin NamesInUse
        /\ \A c \in Conns : wire[c] = <<>>
        /\ \E c \in Conns : peerName[c] = received[j].source /\ pc[c] = "read"

(***************************************************************************)
(* Token authority: claims                                                 *)
(***************************************************************************)
\* the token is one GenerateToken returns for some name, address and time
Genuine(tok) ==
    \E n \in TokenNames, ip \in TokenIPs, t \in 0 .. MaxClock :
        tok = GenerateTokenAt(n, ip, t)

\* C11: a token issued at iat with the server secret validates at every time
\* from iat to iat + 24h, both included, and at no other time.
C11_ValidWithinLifetime ==
    Genuine(validation.token) =>
        (validation.err = "valid"
            <=> /\ validation.token.claims.iat <= validation.at
                /\ validation.at <= validation.token.claims.iat + TokenExpiry)

\* claims are returned only for a token signed with the server secret under
\* an HMAC method, and they are the token's own
ValidOnlyIfSigned ==
    validation.err = "valid" =>
        /\ validation.token.alg \in HMACMethods
        /\ validation.token.sig =
              Sign(validation.token.alg, validation.token.claims, AuthToken)
        /\ validation.claims.peer_name = validation.token.claims.peer_name
        /\ validation.claims.mesh_ip = validation.token.claims.mesh_ip

\* C12: ValidateToken returns claims only for a token whose HMAC signature
\* verifies under the server secret; for a token of GenerateToken(name, ip)
\* that has not expired (now <= expires_at) it returns that name and address.
C12_ClaimsOnlyForSignedToken ==
    /\ ValidOnlyIfSigned
    /\ (Genuine(validation.token)
           /\ validation.at <= validation.token.claims.exp)
          => /\ validation.err = "valid"
             /\ validation.claims.peer_name = validation.token.claims.peer_name
             /\ validation.claims.mesh_ip = validation.token.claims.mesh_ip

(***************************************************************************)
(* Benchmark engine: claims                                                *)
(***************************************************************************)
\* C13: a run that ends with success == true has transferred_size equal to
\* the requested size, for upload and for download.
C13_TransferredEqualsRequested ==
    (bresult.present /\ bresult.success)
        => bresult.transferred = bresult.requested

\* the client has read an Ack with accepted = true as the reply to its Start
AckReceived == firstReply.type = "Ack" /\ firstReply.n # 0

\* C14: before the client has read an Ack with accepted = true it has written
\* nothing but its Start; and when the reply to Start is anything else, Run
\* has returned an error (having written nothing further).
C14_NothingSentWithoutAck ==
    /\ ~AckReceived =>
          \A i \in 1 .. Len(clog) : i = 1 /\ clog[i].type = "Start"
    /\ (firstReply.type # "" /\ ~AckReceived) =>
          bpc = "returned" /\ berr # ""

\* the replies Ack{accepted=false}, Error and Data have each ended a run
\* with an error, nothing but Start written
C14_Witness ==
    /\ firstReply \in Refusals
    /\ bpc = "returned"
    /\ Len(clog) = 1

\* what an upload server owes for the messages it has read, in order: the Ack
\* for Start, a Pong for every Ping, its Complete for the client's Complete
RECURSIVE ExpectedReplies(_, _)
ExpectedReplies(reads, bytes) ==
    IF reads = <<>> THEN <<>>
    ELSE LET f == Head(reads)
         IN CASE f.type = "Start" ->
                   <<AckMessage(TRUE, "")>> \o ExpectedReplies(Tail(reads), bytes)
              [] f.type = "Ping" ->
                   <<PongMessage(f.seq, f.n)>>
                       \o ExpectedReplies(Tail(reads), bytes)
              [] f.type = "Data" -> ExpectedReplies(Tail(reads), bytes + f.n)
              [] f.type = "Complete" ->
                   <<CompleteMessage(bytes)>>
                       \o ExpectedReplies(Tail(reads), bytes)
              [] OTHER -> ExpectedReplies(Tail(reads), bytes)

RECURSIVE OfType(_, _)
OfType(log, type) ==
    IF log = <<>> THEN <<>>
    ELSE IF Head(log).type = type THEN <<Head(log)>> \o OfType(Tail(log), type)
    ELSE OfType(Tail(log), type)

\* no latency probe of the client has given up on its read
NoProbeLost ==
    Len(OfType(clog, "Ping")) =
        Len(probes) + (IF bpc = "ping_r" THEN 1 ELSE 0)

C16_FailedRunHasResult ==
    (bpc = "returned" /\ bcfg.size > 0 /\ berr # "")
        => /\ bresult.present
           /\ ~bresult.success
           /\ bresult.error # ""

\* Run never returns an error together with a Result that reports success
NoSuccessWithError ==
    (bpc = "returned" /\ berr # "") => ~bresult.success

\* an upload that succeeds has transferred the requested size
UploadTransfersAll ==
    (bresult.success /\ bcfg.direction = DirectionUpload)
        => bresult.transferred = bresult.requested

(***************************************************************************)
(* Benchmark protocol codec claims                                         *)
(***************************************************************************)
\* C17: for every message of every type, Encode followed by Decode yields
\* the original message in all fields, and WriteMessage followed by
\* ReadMessage recovers the type and the payload and consumes exactly the
\* bytes of the frame
C17_RoundTrip ==
    /\ cstage = "decoded" => cdecoded = Decoded("", cmsg)
    /\ cstage = "read" =>
           cread = ReadResult("", cmsg.type, Encode(cmsg), Trailer,
                              BLen(Encode(cmsg)))

\* the round trip of the messages whose string has a length that fits the
\* 16-bit length field
RoundTripOfShortStrings ==
    (cstage = "decoded" /\ (cmsg.type = MsgData \/ BLen(cmsg.s) < LongString))
        => cdecoded = Decoded("", cmsg)

\* the frame always round-trips, whatever the payload
FrameRoundTrip ==
    cstage = "read" =>
        cread = ReadResult("", cmsg.type, Encode(cmsg), Trailer,
                           BLen(Encode(cmsg)))

\* the type byte and the length field of the frame that opens the bytes r
FrameType(r) == GetUint(Take(r, 1), 1)
FrameLength(r) == GetUint(Take(Drop(r, 1), 4), 4)

\* C18: reading a frame whose length field exceeds 16 MiB fails with a
\* protocol error, and no payload of the announced length is allocated or
\* read
C18_OversizedFrameRejected ==
    (cstage = "peer_read" /\ FrameLength(cbytes) > MaxFramePayload)
        => (cread.err # "" /\ cread.allocated = 0)

\* C19: reading a frame whose type byte is none of the seven message types
\* fails with a protocol error; the frame is not returned to the caller
C19_UnknownTypeRejected ==
    (cstage = "peer_read" /\ FrameType(cbytes) \notin MessageTypes)
        => cread.err # ""

(***************************************************************************)
(* Chaos writer claims                                                     *)
(***************************************************************************)
\* C20: whatever the interleaving of concurrent Write, Stats and Reset calls
\* on one chaos writer, every statistics value returned by Stats() has
\* dropped_writes <= total_writes
C20_DroppedWithinTotal == seen.DroppedWrites <= seen.TotalWrites

\* the drops that Stats() reports never exceed the Write calls made on the
\* writer, which no Reset takes back
DroppedWithinCallsMade == seen.DroppedWrites <= calls

(***************************************************************************)
(* Token bucket and chaos write claims                                     *)
(***************************************************************************)
\* the steps of a write that reached the underlying writer, in their order
WriteOrder == <<"take", "sleep", "latency", "write">>
InOrder(steps) ==
    /\ steps # <<>>
    /\ steps[Len(steps)] = "write"
    /\ \E pos \in [1 .. Len(steps) -> 1 .. Len(WriteOrder)] :
           /\ \A i \in 1 .. Len(steps) : steps[i] = WriteOrder[pos[i]]
           /\ \A i \in 1 .. Len(steps) - 1 : pos[i] < pos[i + 1]

\* C21: a chaos write selected for drop returns len(p) and no error, never
\* calls the underlying writer, takes no tokens from the bucket and sleeps
\* for no latency; it changes only total_writes, total_bytes and
\* dropped_writes.  A write that is not dropped waits for bandwidth first,
\* then sleeps for the latency, then writes to the underlying writer.
C21_DropBeforePacing ==
    [][cwstats'.TotalWrites = cwstats.TotalWrites + 1 =>
          IF wlast'.dropped
          THEN /\ wlast'.ret = wlast'.n
               /\ wlast'.err = ""
               /\ wlast'.steps = <<>>
               /\ cwstats' = [cwstats EXCEPT
                                  !.TotalWrites = @ + 1,
                                  !.TotalBytes = @ + wlast'.n,
                                  !.DroppedWrites = @ + 1]
               /\ UNCHANGED <<cwcfg, tb, tnow, prevTake, lastTake, under>>
          ELSE /\ InOrder(wlast'.steps)
               /\ under' = under + 1
               /\ cwstats'.DroppedWrites = cwstats.DroppedWrites]_vars

\* a write was dropped by a writer with a bandwidth limit and a latency, and
\* a later write waited for bandwidth, slept and was written
C21_Witness ==
    /\ cwstats.DroppedWrites > 0
    /\ cwcfg.BandwidthBps > 0
    /\ wlast.steps = WriteOrder

\* C22: after Take(n) returned a wait w > 0 and the caller slept for w, a
\* following Take(m) with m <= rate * w returns 0, for every rate, n and m
C22_NoSecondSleep ==
    (/\ prevTake.wait > 0
     /\ lastTake.at - prevTake.at >= prevTake.wait
     /\ lastTake.n * TicksPerSecond <= tb.rate * prevTake.wait)
        => lastTake.wait = 0

\* the same for a first request within the burst capacity of one second
NoSecondSleepWithinBurst ==
    (/\ prevTake.wait > 0
     /\ prevTake.n * TicksPerSecond <= tb.maxTokens
     /\ lastTake.at - prevTake.at >= prevTake.wait
     /\ lastTake.n * TicksPerSecond <= tb.rate * prevTake.wait)
        => lastTake.wait = 0

(***************************************************************************)
(* Registration with retry: claims                                         *)
(***************************************************************************)
\* C23: register_with_retry makes at most max_retries register attempts,
\* returns the first successful response without a further attempt, and when
\* every attempt fails with a retryable error returns an error annotated
\* "after N attempts" with N = max_retries
C23_AttemptsCapped ==
    /\ rpc # "idle" => Len(routcomes) <= rcfg.MaxRetries
    /\ \A i \in 1 .. Len(routcomes) :
           routcomes[i] = "200" =>
               /\ i = Len(routcomes)
               /\ rpc = "done"
               /\ rret = [kind |-> "ok", attempts |-> i]
    /\ (/\ rpc = "done"
        /\ rret.kind # "cancelled"
        /\ \A i \in 1 .. Len(routcomes) : Retryable(routcomes[i]))
           => rret = [kind |-> "after N attempts",
                      attempts |-> rcfg.MaxRetries]

\* every attempt of a call with more than one attempt allowed has failed
\* with a retryable error and the call has returned
C23_Witness ==
    /\ rpc = "done"
    /\ rcfg.MaxRetries > 1
    /\ rret.kind = "after N attempts"
    /\ Len(routcomes) = rcfg.MaxRetries

\* C24: once the context is cancelled before an attempt or during the
\* backoff, register_with_retry makes no further register attempt, whatever
\* is left of max_retries, and what it returns is the cancellation error
C24_CancelStopsAttempts ==
    rcancelAt >= 0 =>
        /\ Len(routcomes) = rcancelAt
        /\ rpc = "done" => rret = [kind |-> "cancelled", attempts |-> rcancelAt]

\* cancelled in the backoff after a failed attempt, with attempts left, and
\* returned
C24_Witness ==
    /\ rcancelAt >= 1
    /\ rcancelAt < rcfg.MaxRetries
    /\ rpc = "done"

(***************************************************************************)
(* Peer route lookup: claims                                               *)
(***************************************************************************)
\* the directory requests of the call so far that failed
Failed(ls) == {i \in 1 .. Len(ls) : ls[i].err}
\* a request is made first, or after a failed request
RetryOnlyAfterFailure == \A i \in 1 .. Len(listings) - 1 : listings[i].err
\* the waits in milliseconds: 500 ms, 1 s, 2 s, 4 s, 8 s
Backoffs == <<500, 1000, 2000, 4000, 8000>>

\* C25: ensure_peer_route asks the directory at most five times for one
\* call, retrying only after a failed request, and the waits that follow
\* successive failed attempts are 500 ms, 1 s, 2 s, 4 s and 8 s
C25_FiveWaits ==
    /\ Len(listings) <= 5
    /\ RetryOnlyAfterFailure
    /\ Len(waits) = Cardinality(Failed(listings))
    /\ \A k \in 1 .. Len(waits) : waits[k] = Backoffs[k]

\* C25 as amended: at most five requests, a retry only after a failed
\* request, and a wait of 500 ms, 1 s, 2 s, 4 s after the first, second,
\* third and fourth failed request; no wait follows the fifth
C25_FourWaits ==
    /\ Len(listings) <= 5
    /\ RetryOnlyAfterFailure
    /\ Len(waits) = Min(Cardinality(Failed(listings)), 4)
    /\ \A k \in 1 .. Len(waits) : waits[k] = Backoffs[k]

\* five requests have failed and the call has returned
C25_Witness ==
    /\ epc = "done"
    /\ Cardinality(Failed(listings)) = 5

\* C26: when a directory request succeeds and the peer is not in the list,
\* ensure_peer_route makes no further directory request for that call,
\* whichever attempt it was
C26_MissingPeerNotRetried ==
    \A i \in 1 .. Len(listings) :
        (~listings[i].err /\ ~Listed(listings[i].peers, ename))
            => (i = Len(listings) /\ epc = "done")

\* the peer was missing from the list of a request that followed a failed
\* one
C26_Witness ==
    /\ Len(listings) > 1
    /\ ~listings[Len(listings)].err
    /\ ~Listed(listings[Len(listings)].peers, ename)

(***************************************************************************)
(* Connection lifecycle: claims                                            *)
(***************************************************************************)
\* C27: when the UDP transport reports the session of peer P invalid, P's
\* connection is disconnected with the reason "session invalidated by peer",
\* P's tunnel is not in the router afterwards, and a discovery is triggered
C27_InvalidationDisconnects ==
    [][\A p \in LifePeers :
           signals'[p] = signals[p] + 1 =>
               /\ p \in lconns =>
                      /\ lstate'[p] = "Closing"
                      /\ lreason'[p] = "session invalidated by peer"
               /\ p \notin tunnels'
               /\ pending']_vars

\* the session of an established peer was reported invalid
C27_Witness ==
    \E p \in LifePeers :
        /\ signals[p] = 1
        /\ p \in cutTunnel
        /\ lstate[p] = "Closing"
        /\ lreason[p] = "session invalidated by peer"
        /\ pending

\* C28: any number of session-invalid signals for the same peer, also when
\* the peer has no connection any more, collapse to a single reconnect: the
\* signals for one session of a peer lead to at most one discovery
C28_OneReconnect == \A p \in LifePeers : reconnects[p] <= 1

\* signals that arrive before the discovery loop has run leave one trigger
OneTriggerPending ==
    \A p \in LifePeers : (p \in askedBy) => (pending /\ signals[p] >= 1)

C30_LoopSurvivesFailures ==
    /\ [](hpc = "exited" => hctx)
    /\ \A k \in 0 .. MaxBeats :
           (tick /\ beats = k /\ hpc = "select")
               ~> (beats > k \/ hpc = "exited")
    /\ hctx ~> (hpc = "exited")

\* a heartbeat is attempted after two heartbeats have failed
C30_Witness ==
    /\ hfails >= 2
    /\ beats > hfails
    /\ hpc = "select"
    /\ ~hctx
(***************************************************************************)
(* Directory requests: claims                                              *)
(***************************************************************************)
\* C32: a register request with a missing or wrong bearer token is answered
\* 401 and changes nothing: no record is created or updated, no mesh_ip is
\* allocated or returned, no token is issued, no relay session changes.
C32_UnauthorizedRegisterChangesNothing ==
    [][\A n \in Names, b \in RequestBearers :
           (b # AuthToken /\ ReqRegister(n, RequestKey, b)) =>
               /\ resp'.status = "unauthorized"
               /\ peers' = peers
               /\ UsedIPs(peers') = UsedIPs(peers)
               /\ resp'.mesh_ip = NoIP
               /\ ~IssuesToken(resp')
               /\ sessions' = sessions]_vars

\* the last request was a register of an unregistered name with a missing or
\* a wrong bearer token, at a time when an address was free for it
C32_Witness ==
    /\ req.op = "register"
    /\ req.bearer # AuthToken
    /\ ~req.known
    /\ peers # <<>>
    /\ AllocateIP(req.name, UsedIPs(peers)) # NoIP

\* C33: after a deregister of a name that succeeded, the name is absent from
\* list_peers and list_dns, it has no relay session, its mesh_ip is free and
\* is what the allocator returns for a name hashing to its slot, and the
\* records and sessions of all other peers are unchanged.
C33_DeregisterRemovesOnlyThePeer ==
    [][\A n \in Names :
           (ReqDeregister(n, AuthToken) /\ resp'.status = "ok") =>
               /\ n \notin ListPeers(peers')
               /\ \A r \in ListDNS(peers') : r.hostname # <<n, DomainSuffix>>
               /\ n \notin sessions'
               /\ n \in DOMAIN peers =>
                      LET ip == peers[n].mesh_ip
                      IN /\ ip \notin UsedIPs(peers')
                         /\ ProbeFrom(ip - FirstUsable, 0, UsedIPs(peers')) = ip
               /\ DOMAIN peers' = DOMAIN peers \ {n}
               /\ \A m \in DOMAIN peers' : peers'[m] = peers[m]
               /\ sessions' \ {n} = sessions \ {n}]_vars

\* the last request deregistered a peer that had a record and a relay
\* session, while another peer with a relay session stays registered
C33_Witness ==
    /\ req.op = "deregister"
    /\ resp.status = "ok"
    /\ req.known
    /\ req.session
    /\ \E m \in DOMAIN peers : m \in sessions

\* C34: a register of a registered name with another public key is rejected
\* with Conflict; the record of the name (public key, mesh_ip, last_seen)
\* and every other record stay as they were, and no mesh_ip is returned.
C34_ConflictKeepsRecord ==
    [][\A n \in DOMAIN peers, k \in Keys :
           (Register(n, k, AuthToken) /\ peers[n].public_key # k) =>
               /\ resp'.status = "conflict"
               /\ resp'.mesh_ip = NoIP
               /\ n \in DOMAIN peers'
               /\ peers'[n] = peers[n]
               /\ peers' = peers]_vars

\* the last request was rejected with Conflict at a time later than the
\* last_seen of every record, so that a refresh would show
C34_Witness ==
    /\ resp.status = "conflict"
    /\ peers # <<>>
    /\ \A n \in DOMAIN peers : peers[n].last_seen < now
(***************************************************************************)
(* Joining peers: claims                                                   *)
(***************************************************************************)
\* C31: when the directory has lost the record of a running peer, the peer
\* eventually registers again and the directory lists it again (or the peer
\* is shut down).
C31_LostPeerRegistersAgain ==
    \A n \in Joiners :
        (jpc[n] = "running" /\ n \notin DOMAIN peers)
            ~> (n \in DOMAIN peers \/ jpc[n] # "running")

\* a peer whose record is lost learns of it from its heartbeat: the answer
\* is not-found while the peer keeps running
LostPeerIsToldNotFound ==
    \A n \in Joiners :
        jlast[n] = "not_found" => jpc[n] # "start" /\ restarts > 0

(***************************************************************************)
(* Benchmark upload: claims                                                *)
(***************************************************************************)
RECURSIVE DataBytes(_)
DataBytes(log) ==
    IF log = <<>> THEN 0
    ELSE (IF Head(log).type = "Data" THEN Head(log).n ELSE 0)
             + DataBytes(Tail(log))

\* every Data frame the client handed to its writer reached the connection
NoFrameLost == DataBytes(clog) = sent

\* the final probe of the upload has read its answer
FinalProbeRead ==
    /\ after = "up_complete"
    /\ bpc \in {"up_complete", "up_complete_r", "returned"}
    /\ probes # <<>>

\* an accepted upload against a server of the given rule, with no frame
\* lost, the connection up, no read given up and no cancellation, is in
\* step: the final Ping is answered by its Pong, the client is not left
\* waiting for a Complete that was read before, and the run ends in success
UploadInStep(rule) ==
    (/\ srule = rule
     /\ sstart.text = DirectionUpload
     /\ AckReceived
     /\ NoFrameLost
     /\ NoProbeLost
     /\ ~connBroken
     /\ ~cancelled
     /\ berr # "failed to read server complete")
        => /\ FinalProbeRead =>
                  /\ probes[Len(probes)].got.type = "Pong"
                  /\ probes[Len(probes)].got.seq = seqNum + 1
           /\ ~(bpc = "up_complete_r" /\ s2c = <<>> /\ spc = "closed")
           /\ bpc = "returned" => bresult.success

\* C35, as stated: against a server that reads Data until the announced size
\* is consumed or a Complete arrives, answers Pings and then sends its
\* Complete, every accepted upload with no lost frame and no expired
\* deadline ends in success, the final Ping answered by a Pong and the
\* server's Complete read as a Complete.
C35_SizedServerInStep == UploadInStep(UntilSize)

\* C35, amended: the same against a server that keeps reading, and
\* answering Pings, until the client's Complete arrives.
C35_CompleteServerInStep == UploadInStep(UntilComplete)

\* an upload of more than one chunk has succeeded against such a server,
\* with nothing lost and the final probe answered
C35_Witness ==
    /\ srule = UntilComplete
    /\ sstart.text = DirectionUpload
    /\ NoFrameLost
    /\ NoProbeLost
    /\ ~connBroken
    /\ ~cancelled
    /\ bcfg.size > ChunkSize
    /\ bpc = "returned"
    /\ bresult.success
    /\ probes[Len(probes)].got = PongMessage(seqNum + 1, probes[Len(probes)].got.n)

\* C36: in an accepted upload of size S that is not cancelled the client
\* hands to its writer Data frames with the sequence numbers 0, 1, 2, ...
\* in order, each of at most ChunkSize bytes and all but the last of exactly
\* ChunkSize bytes, summing to the bytes sent; once all are sent their sum is
\* S and exactly one Complete with bytes = S follows them.
C36_UploadFrames ==
    (bcfg.direction = DirectionUpload /\ AckReceived /\ ~cancelled) =>
        LET data == OfType(emitted, "Data")
            complete == OfType(emitted, "Complete")
        IN /\ \A i \in 1 .. Len(data) :
                  /\ data[i].seq = i - 1
                  /\ data[i].n > 0
                  /\ data[i].n <= ChunkSize
                  /\ i < Len(data) => data[i].n = ChunkSize
           /\ DataBytes(emitted) = sent
           /\ sent <= bcfg.size
           /\ Len(complete) <= 1
           /\ (bpc = "up_complete_r" \/ bresult.success) => Len(complete) = 1
           /\ Len(complete) = 1 =>
                  /\ emitted[Len(emitted)] = CompleteMessage(bcfg.size)
                  /\ DataBytes(emitted) = bcfg.size

\* an upload of a whole chunk and a shorter last one, and its Complete
C36_Witness ==
    /\ bcfg.direction = DirectionUpload
    /\ ~cancelled
    /\ Len(OfType(emitted, "Data")) >= 2
    /\ emitted[Len(emitted) - 1].type = "Ping"
    /\ OfType(emitted, "Data")[Len(OfType(emitted, "Data"))].n < ChunkSize
    /\ emitted[Len(emitted)] = CompleteMessage(bcfg.size)
(***************************************************************************)
(* Token bucket with a sleeping caller: claims                             *)
(***************************************************************************)
\* C37: with a caller that sleeps every wait returned by Take before it
\* writes, the bytes granted in any time window of length T never exceed
\* max_tokens + rate * T.  The window of the grants i .. j is taken from the
\* call of Take for grant i to the write of grant j, the longest window that
\* can be meant; token counts are scaled by TicksPerSecond.
C37_WindowBound ==
    tb # NoBucket =>
        \A i \in 1 .. Len(granted) : \A j \in i .. Len(granted) :
            GrantedBytes(granted, i, j) * TicksPerSecond
                <= tb.maxTokens + tb.rate * (granted[j].at - granted[i].asked)

\* the bucket never holds a debt: after a Take that made the caller wait it
\* is empty, not below zero
BucketNeverInDebt == tb.tokens >= 0

(***************************************************************************)
(* Token authority and the shared auth token: claims                       *)
(***************************************************************************)
\* C38: a party that holds only the shared registration auth token, and no
\* token issued for the name X, cannot construct a token that ValidateToken
\* accepts with peer_name = X.  While the authority has issued no token at
\* all, no validation is successful.
C38_NoTokenWithoutIssue ==
    issued = NoToken => validation.err # "valid"

\* the same holds for a peer that signs with a secret that is not the
\* shared auth token
ForeignSecretRejected ==
    (validation.token # NoToken
        /\ validation.token.sig
               = Sign("HS256", validation.token.claims, OtherSecret))
        => validation.err # "valid"

(***************************************************************************)
(* Peer route lookup: what a call returns and leaves behind                *)
(***************************************************************************)
\* the step is the return of a call of ensurePeerRoute
Returns ==
    \/ epc = "ask" /\ epc' = "done"
    \/ \E name \in RouteNames : EnsurePeerRoute(name, FALSE)

\* the last directory request of the call listed the peer
ListedAtLast(ls, name) ==
    /\ ls # <<>>
    /\ ~ls[Len(ls)].err
    /\ Listed(ls[Len(ls)].peers, name)

\* the last directory request of the call succeeded without the peer
MissingAtLast(ls, name) ==
    /\ ls # <<>>
    /\ ~ls[Len(ls)].err
    /\ ~Listed(ls[Len(ls)].peers, name)

\* C39: ensure_peer_route(name) returns a non-empty mesh IP only after the
\* router maps that IP to name, the IP being the directory's value when a
\* directory request listed the peer and the cached value when the cache was
\* used; when it returns the empty string, the route table and the mesh-IP
\* cache are unchanged, as they are by every step of a call that goes on.
C39_ReturnedIPIsRouted ==
    [][/\ epc' = "ask" => UNCHANGED <<routes, cache>>
       /\ Returns =>
              /\ eret' # "" =>
                     /\ <<eret', ename'>> \in routes'
                     /\ IF ListedAtLast(listings', ename')
                        THEN eret' = Entry(listings'[Len(listings')].peers,
                                           ename').MeshIP
                        ELSE eret' = cache[ename'] /\ UNCHANGED cache
              /\ eret' = "" => UNCHANGED <<routes, cache>>]_vars

\* a call whose five requests failed has returned the cached mesh IP of a
\* peer that an earlier call had found in the directory
C39_Witness ==
    /\ epc = "done"
    /\ Cardinality(Failed(listings)) = 5
    /\ eret # ""
    /\ eret = cache[ename]
    /\ <<eret, ename>> \in routes

\* C40, as stated: when a directory request succeeds and the peer is not
\* listed, no route is installed for that peer and the empty string is
\* returned, even if the cache still holds an entry for it.
C40_MissingPeerNotRouted ==
    [][(Returns /\ MissingAtLast(listings', ename'))
           => (eret' = "" /\ UNCHANGED routes)]_vars

\* C40, amended: when a directory request succeeds and the peer is not
\* listed, the cache is asked as it is after five failed requests: with an
\* entry for the peer the router maps the cached mesh IP to it and that IP
\* is returned, without one nothing is installed and the empty string is
\* returned; a listed peer is never answered from the cache.
C40_MissingPeerFromCache ==
    [][/\ (Returns /\ MissingAtLast(listings', ename')) =>
              IF cache[ename'] # ""
              THEN /\ eret' = cache[ename']
                   /\ routes' = routes \cup {<<cache[ename'], ename'>>}
                   /\ UNCHANGED cache
              ELSE eret' = "" /\ UNCHANGED <<routes, cache>>
       /\ (Returns /\ ListedAtLast(listings', ename')) =>
              cache'[ename'] = eret']_vars

\* the directory answered without a peer that an earlier call had cached,
\* and the call returned the cached mesh IP
C40_Witness ==
    /\ epc = "done"
    /\ MissingAtLast(listings, ename)
    /\ cache[ename] # ""
    /\ eret = cache[ename]
    /\ <<eret, ename>> \in routes

====
